---------------------------- MODULE Spec2Model ----------------------------
(***************************************************************************)
(* A model of ghost-coder's coordination core:                             *)
(*   - the State Store (src/src/ghost_coder/state.py, class StateManager)   *)
(*   - the Playback Engine (src/src/ghost_coder/typer.py, class Typer)      *)
(* Each component has its own specification (SpecStore, SpecEngine); the    *)
(* variables of the other component stay unchanged under it.                *)
(***************************************************************************)
EXTENDS Integers, Sequences, FiniteSets, TLC

VARIABLES
    \* ---- StateManager (state.py) ----
    store_state,        \* self._state : key name -> stored value
    store_connected,    \* self._mqtt_connected
    store_running,      \* self._running
    \* observations of the last message the Store handled
    store_last,         \* the command (decoded payload) handled last
    store_resp,         \* number of messages it published while handling it
    store_msg,          \* the last message it published on STATE
    store_changed,      \* whether handling it changed self._state
    store_had,          \* whether its key was in self._state before
    store_others,       \* whether it changed the entry of any other key
    store_dup,          \* whether it equals the command handled just before
    \* ---- Typer (typer.py) ----
    text_tokens,            \* self.text_tokens (None and [] are both <<>>)
    original_text_tokens,   \* self.original_text_tokens
    text_tokens_preview,    \* self.text_tokens_preview
    play,                   \* self.play
    paused,                 \* self.paused
    advance_to_newline,     \* self.advance_to_newline
    advance_token,          \* self.advance_token
    pause_on_new_line,      \* configuration synced from STATE
    pause_on_window_not_focused,
    refocus_window_on_resume,
    start_playback_paused,
    hwnd,                   \* self.hwnd is set (a window was captured)
    typer_running,          \* self._running
    typer_connected,        \* self._mqtt_connected
    h_pc,                   \* where the message thread is inside a handler
    h_state,                \* _handle_pause's local `state`
    w_pc,                   \* per playback thread: where it is
    w_toks,                 \* the list its `for token in self.text_tokens` iterates
    w_idx,                  \* the position of `token` in that list
    w_ch,                   \* characters of the literal span typed so far
    w_done,                 \* its local token_completed
    \* ---- environment ----
    focused,                \* the active window is the captured window
    \* ---- observations ----
    status_pub,             \* the play_status published last
    monitor,                \* which claim's observation this behaviour records
    mon_pause,              \* C6: consecutive pause commands since playing
    mon_replay,             \* C7: stop-while-paused, then play
    mon_first,              \* C7: first token injected since the last play
    mon_credit,             \* C8: tokens consumed since one credit was granted
    mon_stop,               \* C9: characters typed since a stop inside the span
    mon_event,              \* what the last step of the engine did
    \* ---- Listener (listener.py) ----
    hotkeys,                \* self._hotkeys : slot -> binding or None
    recording_slot,         \* self._recording_slot
    recording_source,       \* self._recording_source
    selected_gamepad,       \* self._selected_gamepad
    pressed_gamepad,        \* self._pressed_gamepad
    listener_running,       \* self._running
    listener_listening,     \* the input listeners and the MQTT loop run
    listener_connected,     \* self._mqtt_connected
    \* ---- environment ----
    held,                   \* the gamepad buttons that are down
    plugged,                \* the gamepad devices that are plugged in
    \* ---- observations ----
    l_step,                 \* what the last step of the Listener was
    l_fired,                \* the slots whose event that step published
    l_dropped,              \* the slot whose pending recording was replaced
                            \* by the register handled just before
    \* ---- UI (app.py) ----
    app_hotkeys,            \* APP_STATE['hotkeys'] : slot -> binding or None
    app_pc,                 \* how far the start of the UI has come
    app_restored,           \* the bindings load_hotkeys read from the file
    app_reported,           \* the slots whose restoration failure was shown
    to_listener,            \* messages on LISTENER the Listener has yet to get
    to_app,                 \* messages on LISTENER the UI has yet to get
    app_running,            \* the UI process runs
    \* ---- Broker (broker.py) ----
    broker_running,         \* the broker process runs
    close_published,        \* {"command": "CLOSE"} was published on APP
    \* ---- Typer's copy of the Store's map (typer.py) ----
    state_values,           \* self._state_values
    to_typer,               \* messages on STATE the Typer has yet to get
    sync_last,              \* the message on STATE the Typer handled last
    \* ---- TextData (data.py) ----
    original_text_to_type,          \* self.original_text_to_type
    replace_quad_spaces_with_tab,   \* self.replace_quad_spaces_with_tab
    data_text_tokens,               \* self.text_tokens
    data_parsed,                    \* __init__ has run parse_text_to_tokens
    \* ---- Typer: the steps of `self.advance_token += 1` and `-= 1` ----
    h_reg,                  \* the value the message thread read for its += 1
    w_reg,                  \* per playback thread: the value read for its -= 1
    \* ---- observations ----
    mon_granted,            \* C30: the increments the handler completed
    mon_spent,              \* C30: the decrements the playback threads completed
    mon_out,                \* C37: what the session has injected so far
    mon_clean,              \* C37: no stop and no load_file since its play
    \* ---- UI (app.py): the playback controls ----
    play_status,            \* APP_STATE['play_status']
    source_file_path,       \* APP_STATE['source_file_path']
    to_ui,                  \* messages on STATE the UI has yet to handle
    mon_ui                  \* C35: what the UI did in this step

storeVars == <<store_state, store_connected, store_running, store_last,
               store_resp, store_msg, store_changed, store_had, store_others,
               store_dup>>

typerVars == <<text_tokens, original_text_tokens, text_tokens_preview, play,
               paused, advance_to_newline, advance_token, pause_on_new_line,
               pause_on_window_not_focused, refocus_window_on_resume,
               start_playback_paused, hwnd, typer_running, typer_connected,
               h_pc, h_state, w_pc, w_toks, w_idx, w_ch, w_done, focused,
               status_pub, monitor, mon_pause, mon_replay, mon_first,
               mon_credit, mon_stop, mon_event>>

listenerVars == <<hotkeys, recording_slot, recording_source, selected_gamepad,
                  pressed_gamepad, listener_running, listener_listening,
                  listener_connected, held, plugged, l_step, l_fired,
                  l_dropped>>

appVars == <<app_hotkeys, app_pc, app_restored, app_reported, to_listener,
             to_app, app_running, broker_running, close_published>>

cacheVars == <<state_values, to_typer, sync_last>>

dataVars == <<original_text_to_type, replace_quad_spaces_with_tab,
              data_text_tokens, data_parsed>>

raceVars == <<h_reg, w_reg, mon_granted, mon_spent>>

outVars == <<mon_out, mon_clean>>

uiVars == <<play_status, source_file_path, to_ui, mon_ui>>

vars == <<storeVars, typerVars, listenerVars, appVars, cacheVars, dataVars,
          raceVars, outVars, uiVars>>

(***************************************************************************)
(* JSON / Python values.  A value is a record [t, n, s]:                   *)
(*   t = "null" | "bool" | "int" | "float" | "inf" | "nan" | "str" | "list" *)
(*   n = the number (bool: 0/1, float: the value in tenths)                *)
(*   s = the characters of a str, as a sequence of one-character strings   *)
(* "inf" and "nan" are the two special Python floats; "list" is the JSON   *)
(* array [1] (any unhashable, non-numeric value behaves the same here).    *)
(***************************************************************************)
VNull == [t |-> "null", n |-> 0, s |-> <<>>]
VBool(b) == [t |-> "bool", n |-> IF b THEN 1 ELSE 0, s |-> <<>>]
VInt(i) == [t |-> "int", n |-> i, s |-> <<>>]
VFloat(tenths) == [t |-> "float", n |-> tenths, s |-> <<>>]
VInf == [t |-> "inf", n |-> 0, s |-> <<>>]
VNan == [t |-> "nan", n |-> 0, s |-> <<>>]
VStr(chars) == [t |-> "str", n |-> 0, s |-> chars]
VList == [t |-> "list", n |-> 0, s |-> <<>>]

Digits == {"0", "1", "2", "3", "4", "5", "6", "7", "8", "9"}

DigitVal(c) ==
    CASE c = "0" -> 0 [] c = "1" -> 1 [] c = "2" -> 2 [] c = "3" -> 3
      [] c = "4" -> 4 [] c = "5" -> 5 [] c = "6" -> 6 [] c = "7" -> 7
      [] c = "8" -> 8 [] c = "9" -> 9

DigitChar(d) ==
    CASE d = 0 -> "0" [] d = 1 -> "1" [] d = 2 -> "2" [] d = 3 -> "3"
      [] d = 4 -> "4" [] d = 5 -> "5" [] d = 6 -> "6" [] d = 7 -> "7"
      [] d = 8 -> "8" [] d = 9 -> "9"

UpperCase ==
    <<"A", "B", "C", "D", "E", "F", "G", "H", "I", "J", "K", "L", "M",
      "N", "O", "P", "Q", "R", "S", "T", "U", "V", "W", "X", "Y", "Z">>
LowerCase ==
    <<"a", "b", "c", "d", "e", "f", "g", "h", "i", "j", "k", "l", "m",
      "n", "o", "p", "q", "r", "s", "t", "u", "v", "w", "x", "y", "z">>

\* str.lower() on one character (the inputs are ASCII)
Lower(c) ==
    IF \E i \in 1..26 : UpperCase[i] = c
    THEN LowerCase[CHOOSE i \in 1..26 : UpperCase[i] = c]
    ELSE c

LowerStr(s) == [i \in 1..Len(s) |-> Lower(s[i])]

IsDigitSeq(s) == Len(s) > 0 /\ \A i \in 1..Len(s) : s[i] \in Digits

RECURSIVE DigitsVal(_)
DigitsVal(s) ==
    IF Len(s) = 0 THEN 0
    ELSE 10 * DigitsVal(SubSeq(s, 1, Len(s) - 1)) + DigitVal(s[Len(s)])

RECURSIVE NatDigits(_)
NatDigits(k) ==
    IF k < 10 THEN <<DigitChar(k)>>
    ELSE NatDigits(k \div 10) \o <<DigitChar(k % 10)>>

Abs(i) == IF i < 0 THEN -i ELSE i

RECURSIVE LStrip(_)
LStrip(s) == IF Len(s) > 0 /\ s[1] = " " THEN LStrip(Tail(s)) ELSE s

RECURSIVE RStrip(_)
RStrip(s) ==
    IF Len(s) > 0 /\ s[Len(s)] = " " THEN RStrip(SubSeq(s, 1, Len(s) - 1)) ELSE s

Strip(s) == RStrip(LStrip(s))

HasSign(s) == Len(s) > 0 /\ s[1] \in {"+", "-"}
Unsigned(s) == IF HasSign(s) THEN Tail(s) ELSE s
SignOf(s) == IF Len(s) > 0 /\ s[1] = "-" THEN -1 ELSE 1

\* The outcome of a Python conversion: the value, or the exception raised.
Ok(v) == [exc |-> "", val |-> v]
Raise(e) == [exc |-> e, val |-> VNull]

\* int(<str>): surrounding blanks, an optional sign, decimal digits
\* (digit-group underscores and other bases are not among the inputs)
ParseInt(s) ==
    LET t == Strip(s) IN
    IF IsDigitSeq(Unsigned(t))
    THEN Ok(VInt(SignOf(t) * DigitsVal(Unsigned(t))))
    ELSE Raise("ValueError")

\* position of the first "." in s, or 0
DotAt(s) ==
    IF \E i \in 1..Len(s) : s[i] = "."
    THEN CHOOSE i \in 1..Len(s) : s[i] = "." /\ \A j \in 1..(i - 1) : s[j] # "."
    ELSE 0

AllDigits(s) == \A i \in 1..Len(s) : s[i] \in Digits

\* float(<str>): blanks, sign, "inf"/"infinity"/"nan" in any case, or digits
\* with an optional point.  Floats are held in tenths: the inputs carry at
\* most one fractional digit (exponent forms are not among the inputs).
ParseFloat(s) ==
    LET t == Strip(s)
        u == Unsigned(t)
        d == DotAt(u)
        ip == IF d = 0 THEN u ELSE SubSeq(u, 1, d - 1)
        fp == IF d = 0 THEN <<>> ELSE SubSeq(u, d + 1, Len(u))
    IN  IF LowerStr(u) \in {<<"i", "n", "f">>,
                            <<"i", "n", "f", "i", "n", "i", "t", "y">>}
        THEN Ok(VInf)
        ELSE IF LowerStr(u) = <<"n", "a", "n">> THEN Ok(VNan)
        ELSE IF AllDigits(ip) /\ AllDigits(fp) /\ Len(ip) + Len(fp) > 0
        THEN Ok(VFloat(SignOf(t) * (10 * DigitsVal(ip)
                       + (IF Len(fp) > 0 THEN DigitVal(fp[1]) ELSE 0))))
        ELSE Raise("ValueError")

\* int(value)
PyInt(v) ==
    CASE v.t = "str" -> ParseInt(v.s)
      [] v.t = "int" -> Ok(v)
      [] v.t = "bool" -> Ok(VInt(v.n))
      [] v.t = "float" ->
            Ok(VInt((IF v.n < 0 THEN -1 ELSE 1) * (Abs(v.n) \div 10)))
      [] v.t = "inf" -> Raise("OverflowError")
      [] v.t = "nan" -> Raise("ValueError")
      [] OTHER -> Raise("TypeError")

\* float(value)
PyFloat(v) ==
    CASE v.t = "str" -> ParseFloat(v.s)
      [] v.t = "int" -> Ok(VFloat(10 * v.n))
      [] v.t = "bool" -> Ok(VFloat(10 * v.n))
      [] v.t \in {"float", "inf", "nan"} -> Ok(v)
      [] OTHER -> Raise("TypeError")

\* bool(value) for a value that is neither bool nor str
PyTruth(v) ==
    CASE v.t \in {"int", "float"} -> v.n # 0
      [] v.t \in {"inf", "nan"} -> TRUE
      [] v.t = "list" -> TRUE          \* [1] is non-empty
      [] OTHER -> FALSE

\* str(value)
PyStr(v) ==
    CASE v.t = "str" -> v
      [] v.t = "int" ->
            VStr((IF v.n < 0 THEN <<"-">> ELSE <<>>) \o NatDigits(Abs(v.n)))
      [] v.t = "bool" ->
            VStr(IF v.n = 1 THEN <<"T", "r", "u", "e">>
                 ELSE <<"F", "a", "l", "s", "e">>)
      [] v.t = "float" ->
            VStr((IF v.n < 0 THEN <<"-">> ELSE <<>>)
                 \o NatDigits(Abs(v.n) \div 10) \o <<".">>
                 \o <<DigitChar(Abs(v.n) % 10)>>)
      [] v.t = "inf" -> VStr(<<"i", "n", "f">>)
      [] v.t = "nan" -> VStr(<<"n", "a", "n">>)
      [] v.t = "list" -> VStr(<<"[", "1", "]">>)
      [] OTHER -> VStr(<<"N", "o", "n", "e">>)

TrueWords == {<<"t", "r", "u", "e">>, <<"1">>, <<"y", "e", "s">>}


(***************************************************************************)
(* State Store: commands and responses.                                    *)
(* A command is the decoded JSON object [cmd, key, value, type]; a missing *)
(* field is VNull / KNone / "" as cmd_data.get() gives None.               *)
(* A key is [t, s]: t = "null" (absent), "str" (the string s) or "list"    *)
(* (a JSON array: unhashable in Python).                                   *)
(***************************************************************************)
KNone == [t |-> "null", s |-> ""]
KStr(name) == [t |-> "str", s |-> name]
KList == [t |-> "list", s |-> ""]

EmptyMap == [k \in {} |-> VNull]

\* a message published on STATE by the Store: {"result": ..., "error": ...,
\* "warning": ...} or {"info": ...}; val / map carry a result that is data
Msg(result, error, warning, val, map) ==
    [result |-> result, error |-> error, warning |-> warning,
     val |-> val, map |-> map]

NoMsg == Msg("", "", "", VNull, EmptyMap)

\* the outcome of a handler: the new self._state, the messages handed to
\* emit() in order, and the exception that escaped the handler ("" if none)
Outcome(state, msgs, raised) == [state |-> state, msgs |-> msgs, raised |-> raised]

\* `key in self._state` / `self._state[key] = ...` hash the key
Hashable(key) == key.t # "list"

\* StateManager.emit: publishes only when connected
StateManager_emit(msgs, m) == IF store_connected THEN Append(msgs, m) ELSE msgs

StateManager_handle_get(cmd_data) ==
    LET key == cmd_data.key IN
    IF key.t = "null"
    THEN Outcome(store_state,
                 StateManager_emit(<<>>, Msg("<map>", "", "", VNull, store_state)), "")
    ELSE IF ~Hashable(key)
    THEN Outcome(store_state, <<>>, "TypeError")
    ELSE IF key.s \in DOMAIN store_state
    THEN Outcome(store_state,
                 StateManager_emit(<<>>, Msg("<value>", "", "", store_state[key.s], EmptyMap)), "")
    ELSE Outcome(store_state,
                 StateManager_emit(<<>>, Msg("None", "not found", "", VNull, EmptyMap)), "")

\* the try block of _handle_add: the converted value or the exception
ConvertValue(value, value_type) ==
    CASE value_type = "int" -> PyInt(value)
      [] value_type = "float" -> PyFloat(value)
      [] value_type = "bool" ->
            IF value.t = "bool" THEN Ok(value)
            ELSE IF value.t = "str" THEN Ok(VBool(LowerStr(value.s) \in TrueWords))
            ELSE Ok(VBool(PyTruth(value)))
      [] OTHER -> Ok(PyStr(value))

\* a variant of _handle_add that merges a str value into the str already
\* stored under the key instead of overwriting it
StateManager_handle_add_merging(cmd_data) ==
    LET key == cmd_data.key
        value == cmd_data.value
        value_type == IF cmd_data.type = "" THEN "str" ELSE cmd_data.type
        conv == ConvertValue(value, value_type)
        merge == /\ Hashable(key)
                 /\ key.s \in DOMAIN store_state
                 /\ conv.val.t = "str"
                 /\ store_state[key.s].t = "str"
    IN  IF key.t = "null" \/ value.t = "null" \/ conv.exc # "" \/ ~Hashable(key)
        THEN Outcome(store_state,
                     StateManager_emit(<<>>, Msg("error", "add", "", VNull, EmptyMap)), "")
        ELSE Outcome([k \in DOMAIN store_state \cup {key.s} |->
                         IF k # key.s THEN store_state[k]
                         ELSE IF merge THEN VStr(store_state[k].s \o conv.val.s)
                         ELSE conv.val],
                     StateManager_emit(<<>>, Msg("ok", "", "", VNull, EmptyMap)), "")

StateManager_handle_add(cmd_data) ==
    LET key == cmd_data.key
        value == cmd_data.value
        value_type == IF cmd_data.type = "" THEN "str" ELSE cmd_data.type
        conv == ConvertValue(value, value_type)
    IN  IF key.t = "null"
        THEN Outcome(store_state,
                     StateManager_emit(<<>>, Msg("error", "missing key", "", VNull, EmptyMap)), "")
        ELSE IF value.t = "null"
        THEN Outcome(store_state,
                     StateManager_emit(<<>>, Msg("error", "missing value", "", VNull, EmptyMap)), "")
        ELSE IF conv.exc \in {"ValueError", "TypeError"}
        THEN Outcome(store_state,
                     StateManager_emit(<<>>, Msg("error", "convert", "", VNull, EmptyMap)), "")
        ELSE IF conv.exc # ""
        THEN Outcome(store_state, <<>>, conv.exc)
        ELSE IF ~Hashable(key)     \* self._state[key] = ... raises TypeError
        THEN Outcome(store_state,
                     StateManager_emit(<<>>, Msg("error", "convert", "", VNull, EmptyMap)), "")
        ELSE Outcome([k \in DOMAIN store_state \cup {key.s} |->
                         IF k = key.s THEN conv.val ELSE store_state[k]],
                     StateManager_emit(<<>>, Msg("ok", "", "", VNull, EmptyMap)), "")

\* a variant of _handle_delete without the `key in self._state` guard:
\* `del self._state[key]` raises KeyError for an absent key
StateManager_handle_delete_unguarded(cmd_data) ==
    LET key == cmd_data.key IN
    IF key.t = "null"
    THEN Outcome(store_state,
                 StateManager_emit(<<>>, Msg("error", "missing key", "", VNull, EmptyMap)), "")
    ELSE IF ~Hashable(key)
    THEN Outcome(store_state, <<>>, "TypeError")
    ELSE IF key.s \in DOMAIN store_state
    THEN Outcome([k \in DOMAIN store_state \ {key.s} |-> store_state[k]],
                 StateManager_emit(<<>>, Msg("ok", "", "", VNull, EmptyMap)), "")
    ELSE Outcome(store_state, <<>>, "KeyError")

StateManager_handle_delete(cmd_data) ==
    LET key == cmd_data.key IN
    IF key.t = "null"
    THEN Outcome(store_state,
                 StateManager_emit(<<>>, Msg("error", "missing key", "", VNull, EmptyMap)), "")
    ELSE IF ~Hashable(key)
    THEN Outcome(store_state, <<>>, "TypeError")
    ELSE IF key.s \in DOMAIN store_state
    THEN Outcome([k \in DOMAIN store_state \ {key.s} |-> store_state[k]],
                 StateManager_emit(<<>>, Msg("ok", "", "", VNull, EmptyMap)), "")
    ELSE Outcome(store_state,
                 StateManager_emit(<<>>, Msg("ok", "", "not found", VNull, EmptyMap)), "")

StateManager_handle_help ==
    Outcome(store_state, StateManager_emit(<<>>, Msg("<info>", "", "", VNull, EmptyMap)), "")

\* a variant of the dispatch that answers a message without a known cmd
\* with an error response
StateManager_dispatch_answering(cmd_data) ==
    CASE cmd_data.cmd = "get" -> StateManager_handle_get(cmd_data)
      [] cmd_data.cmd = "add" -> StateManager_handle_add(cmd_data)
      [] cmd_data.cmd = "del" -> StateManager_handle_delete(cmd_data)
      [] cmd_data.cmd = "help" -> StateManager_handle_help
      [] OTHER -> Outcome(store_state,
                          StateManager_emit(<<>>, Msg("error", "unknown command", "",
                                                      VNull, EmptyMap)), "")

\* the STATE branch of _on_mqtt_message: dispatch on cmd; an exception that
\* escapes a handler is caught and logged by the outer except
StateManager_dispatch(cmd_data) ==
    CASE cmd_data.cmd = "get" -> StateManager_handle_get(cmd_data)
      [] cmd_data.cmd = "add" -> StateManager_handle_add(cmd_data)
      [] cmd_data.cmd = "del" -> StateManager_handle_delete(cmd_data)
      [] cmd_data.cmd = "help" -> StateManager_handle_help
      [] OTHER -> Outcome(store_state, <<>>, "")


(***************************************************************************)
(* State Store: the inputs a behaviour draws its commands from.            *)
(***************************************************************************)
StoreNames == {"x", "play_status"}

StoreKeys == {KNone, KList} \cup {KStr(name) : name \in StoreNames}

StoreValues ==
    { VNull,
      VStr(<<"5">>),
      VStr(<<"n", "o", "t", "a", "n", "u", "m", "b", "e", "r">>),
      VInf,
      VList }

StoreTypes == {"int", "float", "bool", ""}

\* add commands: every value and type for the string keys; a command without
\* key returns before it looks at value or type, and one with an unhashable
\* key fails only after a successful conversion
StoreCommands ==
    [cmd : {"add"}, key : {KStr(name) : name \in StoreNames},
     value : StoreValues, type : StoreTypes]
    \cup [cmd : {"add"}, key : {KNone}, value : {VStr(<<"5">>)}, type : {"int"}]
    \cup [cmd : {"add"}, key : {KList}, value : {VStr(<<"5">>), VInf}, type : {"int", ""}]
    \cup [cmd : {"get", "del"}, key : StoreKeys, value : {VNull}, type : {""}]
    \cup [cmd : {"help", "bogus"}, key : {KNone}, value : {VNull}, type : {""}]

NoCommand == [cmd |-> "", key |-> KNone, value |-> VNull, type |-> ""]

\* payloads seen on APP: {"cmd": "CLOSE"}, {"command": "CLOSE"}, anything else
AppPayloads == {"cmd=CLOSE", "command=CLOSE", "other"}

(***************************************************************************)
(* State Store: actions.                                                   *)
(***************************************************************************)
StoreInit ==
    /\ store_state = EmptyMap
    /\ store_connected = FALSE
    /\ store_running = FALSE
    /\ store_last = NoCommand
    /\ store_resp = 0
    /\ store_msg = NoMsg
    /\ store_changed = FALSE
    /\ store_had = FALSE
    /\ store_others = FALSE
    /\ store_dup = FALSE

\* whether two maps differ at a key other than `key`
Lookup(map, name) == IF name \in DOMAIN map THEN map[name] ELSE VNull
OthersChanged(old, new, key) ==
    \E name \in (DOMAIN old \cup DOMAIN new) \ (IF key.t = "str" THEN {key.s} ELSE {}) :
        \/ (name \in DOMAIN old) # (name \in DOMAIN new)
        \/ Lookup(old, name) # Lookup(new, name)

\* StateManager.start: connect and start the network loop, or give up
StateManager_start ==
    /\ ~store_running
    /\ ~store_connected
    /\ store_last = NoCommand
    /\ \E connects \in BOOLEAN : store_running' = connects
    /\ UNCHANGED <<typerVars, listenerVars, appVars, cacheVars, dataVars, raceVars, outVars, uiVars>>
    /\ UNCHANGED <<store_state, store_connected, store_last, store_resp,
                   store_msg, store_changed, store_had, store_others, store_dup>>

\* StateManager._on_mqtt_connect with rc == 0 (rc != 0 only logs)
StateManager_on_mqtt_connect ==
    /\ store_running
    /\ ~store_connected
    /\ store_connected' = TRUE
    /\ UNCHANGED <<typerVars, listenerVars, appVars, cacheVars, dataVars, raceVars, outVars, uiVars>>
    /\ UNCHANGED <<store_state, store_running, store_last, store_resp,
                   store_msg, store_changed, store_had, store_others, store_dup>>

\* how many messages on STATE wait for the Typer at most
MaxInbox == 2

\* the broker hands what the Store publishes on STATE to the Typer, which
\* subscribes to STATE once it is connected; the copies are followed on
\* the behaviours that observe the Typer's cache
Delivered(msgs) ==
    IF monitor = "C26" /\ typer_running /\ typer_connected THEN msgs ELSE <<>>

\* StateManager._on_mqtt_message for a message on STATE
StateManager_on_state_message(cmd_data) ==
    LET out == StateManager_dispatch(cmd_data) IN
    /\ store_running
    /\ store_connected
    /\ store_state' = out.state
    /\ store_last' = cmd_data
    /\ store_resp' = Len(out.msgs)
    /\ store_msg' = IF Len(out.msgs) > 0 THEN out.msgs[Len(out.msgs)] ELSE store_msg
    /\ store_changed' = (out.state # store_state)
    /\ store_had' = (cmd_data.key.t = "str" /\ cmd_data.key.s \in DOMAIN store_state)
    /\ store_others' = OthersChanged(store_state, out.state, cmd_data.key)
    /\ store_dup' = (cmd_data = store_last)
    /\ UNCHANGED <<store_connected, store_running>>
    /\ Len(to_typer) + Len(Delivered(out.msgs)) <= MaxInbox
    /\ to_typer' = to_typer \o Delivered(out.msgs)
    /\ UNCHANGED <<state_values, sync_last, dataVars, raceVars, outVars, uiVars>>
    /\ UNCHANGED <<typerVars, listenerVars, appVars, outVars, uiVars>>

StoreCommand == \E cmd_data \in StoreCommands : StateManager_on_state_message(cmd_data)

\* StateManager.stop
StateManager_stop ==
    /\ store_running' = FALSE
    /\ UNCHANGED <<store_state, store_connected, store_last, store_resp,
                   store_msg, store_changed, store_had, store_others, store_dup>>

\* StateManager._on_mqtt_message for a message on APP: only {"cmd": "CLOSE"}
\* stops the Store
StateManager_on_app_message(payload) ==
    /\ store_running
    /\ store_connected
    /\ IF payload = "cmd=CLOSE" THEN StateManager_stop ELSE UNCHANGED storeVars
    /\ UNCHANGED <<typerVars, listenerVars, appVars, cacheVars, dataVars, raceVars, outVars, uiVars>>

StoreApp == \E payload \in AppPayloads : StateManager_on_app_message(payload)

StoreNext ==
    \/ StateManager_start
    \/ StateManager_on_mqtt_connect
    \/ StoreCommand
    \/ StoreApp


(***************************************************************************)
(* State Store: claims.                                                    *)
(***************************************************************************)
\* an add command that reaches the conversion
ReachesConversion(c) == c.cmd = "add" /\ c.key.t # "null" /\ c.value.t # "null"

DeclaredType(c) == IF c.type = "" THEN "str" ELSE c.type

\* an add whose value cannot be coerced to the declared type int or float
CoercionFails(c) ==
    /\ ReachesConversion(c)
    /\ c.type \in {"int", "float"}
    /\ ConvertValue(c.value, DeclaredType(c)).exc # ""

\* an add that stores its value
AddSucceeds(c) ==
    /\ ReachesConversion(c)
    /\ c.key.t = "str"
    /\ ConvertValue(c.value, DeclaredType(c)).exc = ""

\* C1: an add whose value cannot be coerced to the declared type (int or
\* float) makes the Store publish one error response and leaves its map
\* unchanged, so that a later get of the key returns what it returned before.
C1_FailedAddReportsError ==
    CoercionFails(store_last) =>
        /\ store_resp = 1
        /\ store_msg.result = "error"
        /\ ~store_changed

\* C2: applying the same add command twice in a row leaves the map the first
\* application produced: the second application changes nothing.
C2_AddIdempotent ==
    (store_dup /\ store_last.cmd = "add") => (~store_changed /\ ~store_others)

C2_Witness ==
    /\ store_dup
    /\ AddSucceeds(store_last)
    /\ store_msg.result = "ok"
    /\ store_state[store_last.key.s] = ConvertValue(store_last.value, DeclaredType(store_last)).val
    /\ Cardinality(DOMAIN store_state) = 2

\* C3: after every successful add the Store has published a message carrying
\* the full updated map (all keys).
C3_AddBroadcastsFullMap ==
    AddSucceeds(store_last) =>
        (store_resp >= 1 /\ store_msg.result = "<map>" /\ store_msg.map = store_state)

\* C4: each get, add, del or help command makes the Store publish exactly one
\* message, whatever its parameters and whatever the map.
C4_ExactlyOneResponse ==
    store_last.cmd \in {"get", "add", "del", "help"} => store_resp = 1

\* C5: del of a (string) key is never an error and is idempotent: a present
\* key is removed with response ok, an absent key leaves the map unchanged
\* with response ok plus a warning, no other key is touched, and a second
\* identical del changes nothing.
C5_DeleteIdempotent ==
    (store_last.cmd = "del" /\ store_last.key.t = "str") =>
        /\ store_resp = 1
        /\ store_msg.result = "ok"
        /\ store_msg.error = ""
        /\ store_last.key.s \notin DOMAIN store_state
        /\ ~store_others
        /\ store_had => (store_changed /\ store_msg.warning = "")
        /\ ~store_had => (~store_changed /\ store_msg.warning # "")
        /\ store_dup => ~store_changed

C5_Witness ==
    /\ store_last.cmd = "del"
    /\ store_last.key.t = "str"
    /\ store_dup
    /\ store_msg.warning # ""
    /\ DOMAIN store_state # {}


(***************************************************************************)
(* Playback Engine (typer.py).                                             *)
(*                                                                         *)
(* A token is [k, n]:                                                      *)
(*   k = "lit"     a literal span of n characters (a plain str token)      *)
(*       "enter"   SingleKey("enter")                                      *)
(*       "atpause" SingleKey("atpause")                                    *)
(*       "key"     any other SingleKey, a MultiKeys, TimedPause or         *)
(*                 MouseScroll: type_token treats them alike (focus check, *)
(*                 injection, token_completed)                             *)
(*       "rep"     RepeatedKey(name, n)                                    *)
(* The message thread (paho's network loop) runs one handler at a time;    *)
(* each play command starts a playback thread.  Threads interleave between *)
(* the steps below; the sleeps of the code are points where others run.    *)
(***************************************************************************)
Lit(n) == [k |-> "lit", n |-> n]
Enter == [k |-> "enter", n |-> 1]
AtPause == [k |-> "atpause", n |-> 1]
OtherKey == [k |-> "key", n |-> 1]
Repeated(n) == [k |-> "rep", n |-> n]

\* the longest literal span of the files on disk
SpanLen == 3

\* the number of playback threads that may be alive at once
MaxThreads == 2

\* the same, in the behaviours that follow one playback thread at a time
OneThread == 1

\* the largest value a credit counter is driven to
MaxCredit == 1

Threads == 1..MaxThreads

\* the tokenized contents of the files a load_file command may name
Files ==
    { <<Lit(SpanLen), Enter, OtherKey>>,
      <<AtPause, Repeated(2)>> }

\* a file without contents
EmptyFile == <<>>

\* the paths of load_file commands: a readable file, or "" (no `file`
\* parameter) or "missing" (open() raises)
NoPath == <<[k |-> "nopath", n |-> 0]>>
BadPath == <<[k |-> "badpath", n |-> 0]>>

\* a configuration as _sync_from_state receives it from a full-map message
Config(nl, wf, rf, sp) ==
    [pause_on_new_line |-> nl, pause_on_window_not_focused |-> wf,
     refocus_window_on_resume |-> rf, start_playback_paused |-> sp]

DefaultConfig == Config(TRUE, TRUE, TRUE, FALSE)

Configs == { DefaultConfig, Config(FALSE, FALSE, FALSE, TRUE) }

NoThread == [t \in Threads |-> "idle"]

\* the observations made on behaviours with overlapping playback threads
Concurrent == {"none", "C6", "C7", "C8", "C9", "C10"}

\* how many playback threads a behaviour lets be alive at once: a play
\* command that would start one more is not delivered
ThreadCap == IF monitor \in Concurrent THEN MaxThreads ELSE OneThread

\* the file the behaviours that replay a source load
ReplayFiles == { <<Lit(SpanLen), Enter, OtherKey>> }

\* the files the load_file commands of a behaviour name
Loadable ==
    IF monitor = "C7" THEN ReplayFiles
    ELSE IF monitor \in Concurrent THEN Files
    ELSE Files \cup {EmptyFile}

\* the published status: Typer.emit sends only while the client is connected
\* (stop() disconnects it)
Typer_update_play_status(status) ==
    IF typer_connected /\ typer_running THEN status ELSE status_pub

\* Typer.check_window_focused: TRUE without a captured window or with the
\* option off, else whether the active window is the captured one
WindowFocused == (~hwnd) \/ (~pause_on_window_not_focused) \/ focused

\* a focus check that finds the window unfocused and lets playback go on
PauseIfNotIgnored(pause_if_not) == FALSE

\* check_window_focused: `if pause_if_not:` before it sets self.paused
PauseIfNot(pause_if_not) == pause_if_not

\* self.paused and the published status after check_window_focused(
\* pause_if_not=True)
PausedAfterCheck == IF ~WindowFocused /\ PauseIfNot(TRUE) THEN TRUE ELSE paused

StatusAfterCheck ==
    IF ~WindowFocused /\ PauseIfNot(TRUE)
    THEN Typer_update_play_status("paused") ELSE status_pub

\* Typer.focus_window: activates the captured window, if any
FocusAfterActivate == IF hwnd THEN TRUE ELSE focused

\* the engine's state as its flags give it
EngineState ==
    IF ~play THEN "stopped" ELSE IF paused THEN "paused" ELSE "playing"

Alive(t) == w_pc[t] \notin {"idle", "crashed"}

\* an observed step: its kind e, the playback thread t (0: the message
\* thread), the response r of a handler, and whether it started a thread
Event(e, t, r, s) == [e |-> e, t |-> t, r |-> r, s |-> s]

NoEvent == Event("none", 0, "", FALSE)

\* the kinds of step each observation records
Watched ==
    CASE monitor = "C11" -> {"play", "atpause", "unfocused"}
      [] monitor = "C13" -> {"inject"}
      [] monitor = "C37" -> {"pause"}
      [] monitor = "C40" -> {"echo"}
      [] OTHER -> {}

Watch(ev) == IF ev.e \in Watched THEN ev ELSE NoEvent

\* the behaviours that follow what one session injects
Session == monitor = "C37"

\* what a session has injected once thread t injected character ch of the
\* token it is at (ch = 0: a token that is one key)
Injected(t, ch) ==
    IF Session /\ mon_clean THEN Append(mon_out, <<w_idx[t], ch>>) ELSE mon_out

TyperInit ==
    /\ text_tokens = <<>>
    /\ original_text_tokens = <<>>
    /\ text_tokens_preview = <<>>
    /\ play = FALSE
    /\ paused = FALSE
    /\ advance_to_newline = 0
    /\ advance_token = 0
    /\ pause_on_new_line = DefaultConfig.pause_on_new_line
    /\ pause_on_window_not_focused = DefaultConfig.pause_on_window_not_focused
    /\ refocus_window_on_resume = DefaultConfig.refocus_window_on_resume
    /\ start_playback_paused = DefaultConfig.start_playback_paused
    /\ hwnd = FALSE
    /\ typer_running = FALSE
    /\ typer_connected = FALSE
    /\ h_pc = "idle"
    /\ h_state = ""
    /\ w_pc = NoThread
    /\ w_toks = [t \in Threads |-> <<>>]
    /\ w_idx = [t \in Threads |-> 0]
    /\ w_ch = [t \in Threads |-> 0]
    /\ w_done = [t \in Threads |-> FALSE]
    /\ focused = FALSE
    /\ status_pub = "none"
    /\ mon_pause = 0
    /\ mon_replay = "none"
    /\ mon_first = 0
    /\ mon_credit = -1
    /\ mon_stop = [t \in Threads |-> -1]
    /\ mon_event = NoEvent

(***************************************************************************)
(* Observations: each is recorded only in behaviours whose `monitor` names *)
(* its claim, and is otherwise left at its initial value.                  *)
(***************************************************************************)
\* C6: after a step of a playback thread that leaves the flags p, q
ObsPauseThread(p, q) ==
    IF monitor = "C6" /\ (p # play \/ q # paused) THEN 0 ELSE mon_pause

\* C6: after the toggle of a pause command
ObsPauseToggle ==
    IF monitor # "C6" THEN mon_pause
    ELSE IF mon_pause = 1 THEN 2
    ELSE IF play /\ ~paused THEN 1 ELSE 0

\* C6: after any other command
ObsPauseOther == IF monitor = "C6" THEN 0 ELSE mon_pause

\* C8: after a token was completed by a playback thread
ObsCreditToken ==
    IF monitor = "C8" /\ mon_credit >= 0 /\ mon_credit < 2
    THEN mon_credit + 1 ELSE mon_credit

\* C8: after a command other than the arming advance_token
ObsCreditOther == IF monitor = "C8" THEN -1 ELSE mon_credit

\* C7: after the injection of the first character or key of token idx
ObsFirst(idx) ==
    IF monitor = "C7" /\ mon_first = 0 THEN idx ELSE mon_first

\* C7: after a command that is neither stop nor play
ObsReplayOther(keeps) ==
    IF monitor = "C7" /\ ~(keeps /\ mon_replay = "replayed") THEN "none" ELSE mon_replay

\* C9: after thread t went on from its literal span
ObsStopLeave(t) == [mon_stop EXCEPT ![t] = -1]

\* C9: after thread t typed one more character
ObsStopChar(t) ==
    IF monitor = "C9" /\ mon_stop[t] >= 0 /\ mon_stop[t] < 2
    THEN [mon_stop EXCEPT ![t] = @ + 1] ELSE mon_stop

\* C9: after a play command that started a session
ObsStopPlay == [t \in Threads |-> -1]

\* C9: after a stop command was handled
ObsStopCommand ==
    IF monitor # "C9" THEN mon_stop
    ELSE [t \in Threads |->
            IF /\ w_pc[t] = "chars"
               /\ w_ch[t] >= 1
               /\ w_ch[t] < w_toks[t][w_idx[t]].n
               /\ mon_stop[t] < 0
            THEN 0 ELSE mon_stop[t]]


cfgVars == <<pause_on_new_line, pause_on_window_not_focused,
             refocus_window_on_resume, start_playback_paused>>
threadVars == <<w_pc, w_toks, w_idx, w_ch, w_done>>
connVars == <<typer_running, typer_connected>>
tokVars == <<text_tokens, original_text_tokens, text_tokens_preview>>
creditVars == <<advance_to_newline, advance_token>>
handlerVars == <<h_pc, h_state>>

\* the message thread is free to take the next message
HandlerIdle == typer_running /\ typer_connected /\ h_pc = "idle"

(***************************************************************************)
(* Playback Engine: the message thread.                                    *)
(***************************************************************************)
\* Typer.start: connect and start the network loop, or give up
Typer_start ==
    /\ ~typer_running
    /\ ~typer_connected
    /\ \E connects \in BOOLEAN : typer_running' = connects
    /\ UNCHANGED <<tokVars, play, paused, creditVars, cfgVars, hwnd,
                   typer_connected, handlerVars, threadVars, focused,
                   status_pub, monitor, mon_pause, mon_replay, mon_first,
                   mon_credit, mon_stop>>
    /\ mon_event' = NoEvent
    /\ UNCHANGED <<storeVars, listenerVars, appVars, cacheVars, dataVars, raceVars, outVars, uiVars>>

\* Typer._on_mqtt_connect with rc == 0
Typer_on_mqtt_connect ==
    /\ typer_running
    /\ ~typer_connected
    /\ typer_connected' = TRUE
    /\ UNCHANGED <<tokVars, play, paused, creditVars, cfgVars, hwnd,
                   typer_running, handlerVars, threadVars, focused,
                   status_pub, monitor, mon_pause, mon_replay, mon_first,
                   mon_credit, mon_stop>>
    /\ mon_event' = NoEvent
    /\ UNCHANGED <<storeVars, listenerVars, appVars, cacheVars, dataVars, raceVars, outVars, uiVars>>

\* Typer._handle_load_file / initialize_text_data: a readable file replaces
\* the three token lists; otherwise only an error goes to the UI topic
Typer_handle_load_file(file) ==
    /\ HandlerIdle
    /\ IF file \in Loadable
       THEN /\ text_tokens' = file
            /\ original_text_tokens' = file
            /\ text_tokens_preview' = file
       ELSE UNCHANGED tokVars
    /\ mon_pause' = ObsPauseOther
    /\ mon_replay' = ObsReplayOther(FALSE)
    /\ mon_credit' = ObsCreditOther
    /\ UNCHANGED <<play, paused, creditVars, cfgVars, hwnd, connVars,
                   handlerVars, threadVars, focused, status_pub, monitor,
                   mon_first, mon_stop>>
    /\ mon_event' = NoEvent
    /\ mon_out' = IF file \in Loadable THEN <<>> ELSE mon_out
    /\ mon_clean' = IF file \in Loadable THEN FALSE ELSE mon_clean
    /\ UNCHANGED <<storeVars, listenerVars, appVars, cacheVars, dataVars, raceVars, uiVars>>

LoadFile == \E file \in Loadable \cup {NoPath, BadPath} : Typer_handle_load_file(file)

\* the thread slot a new threading.Thread takes
FreeThread == CHOOSE t \in Threads : ~Alive(t) /\ \A u \in Threads : u < t => Alive(u)

\* a thread may be started
CanStart == \E t \in Threads : t <= ThreadCap /\ ~Alive(t)

\* a play command that is never refused for missing data
NoDataNever(tokens) == FALSE

\* `if not self.text_tokens`
NoData(tokens) == tokens = <<>>

\* Typer._handle_play
Typer_handle_play ==
    /\ HandlerIdle
    /\ IF NoData(text_tokens) \/ play
       THEN /\ UNCHANGED <<play, paused, status_pub, threadVars, mon_first,
                           mon_stop>>
            /\ mon_replay' = ObsReplayOther(TRUE)
       ELSE /\ CanStart
            /\ play' = TRUE
            /\ paused' = FALSE
            /\ status_pub' = Typer_update_play_status("playing")
            /\ w_pc' = [w_pc EXCEPT ![FreeThread] = "delay"]
            /\ w_toks' = [w_toks EXCEPT ![FreeThread] = <<>>]
            /\ w_idx' = [w_idx EXCEPT ![FreeThread] = 0]
            /\ w_ch' = [w_ch EXCEPT ![FreeThread] = 0]
            /\ w_done' = [w_done EXCEPT ![FreeThread] = FALSE]
            /\ mon_replay' = IF monitor # "C7" THEN mon_replay
                             ELSE IF mon_replay = "stopped" THEN "replayed" ELSE "none"
            /\ mon_first' = IF monitor = "C7" THEN 0 ELSE mon_first
            /\ mon_stop' = ObsStopPlay
    /\ mon_pause' = ObsPauseOther
    /\ mon_credit' = ObsCreditOther
    /\ UNCHANGED <<tokVars, creditVars, cfgVars, hwnd, connVars, handlerVars,
                   focused, monitor>>
    /\ mon_event' = Watch(Event("play", 0,
                          IF NoData(text_tokens) THEN "error"
                          ELSE IF play THEN "warning" ELSE "ok",
                          w_pc' # w_pc))
    /\ mon_out' = IF NoData(text_tokens) \/ play THEN mon_out ELSE <<>>
    /\ mon_clean' = IF NoData(text_tokens) \/ play THEN mon_clean ELSE Session
    /\ UNCHANGED <<storeVars, listenerVars, appVars, cacheVars, dataVars, raceVars, uiVars>>

\* Typer._handle_stop, with _reset_to_beginning
Typer_handle_stop ==
    /\ HandlerIdle
    /\ play' = FALSE
    /\ paused' = FALSE
    /\ IF original_text_tokens # <<>>
       THEN /\ text_tokens' = original_text_tokens
            /\ text_tokens_preview' = original_text_tokens
       ELSE UNCHANGED <<text_tokens, text_tokens_preview>>
    /\ status_pub' = Typer_update_play_status("stopped")
    /\ mon_pause' = ObsPauseOther
    /\ mon_replay' = IF monitor # "C7" THEN mon_replay
                     ELSE IF play /\ paused THEN "stopped" ELSE "none"
    /\ mon_credit' = ObsCreditOther
    /\ mon_stop' = ObsStopCommand
    /\ UNCHANGED <<original_text_tokens, creditVars, cfgVars, hwnd, connVars,
                   handlerVars, threadVars, focused, monitor, mon_first>>
    /\ mon_event' = NoEvent
    /\ mon_out' = <<>>
    /\ mon_clean' = FALSE
    /\ UNCHANGED <<storeVars, listenerVars, appVars, cacheVars, dataVars, raceVars, uiVars>>

\* a variant of `not self.paused` that latches
PauseLatch(p) == TRUE

\* `self.paused = not self.paused`
PauseToggle(p) == ~p

\* Typer._handle_pause up to its time.sleep(2): the toggle, and when this
\* resumes with refocus_window_on_resume, focus_window() and the sleep
Typer_handle_pause ==
    /\ HandlerIdle
    /\ paused' = PauseToggle(paused)
    /\ IF ~paused' /\ refocus_window_on_resume
       THEN /\ focused' = FocusAfterActivate
            /\ h_pc' = "pause_sleep"
            /\ h_state' = "playing"
            /\ UNCHANGED status_pub
       ELSE /\ status_pub' = Typer_update_play_status(IF paused' THEN "paused" ELSE "playing")
            /\ UNCHANGED <<focused, handlerVars>>
    /\ mon_pause' = ObsPauseToggle
    /\ mon_replay' = ObsReplayOther(TRUE)
    /\ mon_credit' = ObsCreditOther
    /\ UNCHANGED <<tokVars, play, creditVars, cfgVars, hwnd, connVars,
                   threadVars, monitor, mon_first, mon_stop>>
    /\ mon_event' = Watch(Event("pause", 0, "ok", FALSE))
    /\ UNCHANGED <<storeVars, listenerVars, appVars, cacheVars, dataVars, raceVars, outVars, uiVars>>

\* Typer._handle_pause after the sleep: _update_play_status(state)
Typer_handle_pause_publish ==
    /\ h_pc = "pause_sleep"
    /\ status_pub' = Typer_update_play_status(h_state)
    /\ h_pc' = "idle"
    /\ h_state' = ""
    /\ UNCHANGED <<tokVars, play, paused, creditVars, cfgVars, hwnd, connVars,
                   threadVars, focused, monitor, mon_pause, mon_replay,
                   mon_first, mon_credit, mon_stop>>
    /\ mon_event' = NoEvent
    /\ UNCHANGED <<storeVars, listenerVars, appVars, cacheVars, dataVars, raceVars, outVars, uiVars>>

\* Typer._handle_advance_newline
Typer_handle_advance_newline ==
    /\ HandlerIdle
    /\ advance_to_newline < MaxCredit
    /\ advance_to_newline' = advance_to_newline + 1
    /\ mon_pause' = ObsPauseOther
    /\ mon_replay' = ObsReplayOther(TRUE)
    /\ mon_credit' = ObsCreditOther
    /\ UNCHANGED <<tokVars, play, paused, advance_token, cfgVars, hwnd,
                   connVars, handlerVars, threadVars, focused, status_pub,
                   monitor, mon_first, mon_stop>>
    /\ mon_event' = NoEvent
    /\ UNCHANGED <<storeVars, listenerVars, appVars, cacheVars, dataVars, raceVars, outVars, uiVars>>

\* the behaviours that follow `self.advance_token += 1` and `-= 1` as the
\* read and the write they are made of: neither is done under a lock
Racy == monitor = "C30"

\* Typer._handle_advance_token
Typer_handle_advance_token ==
    /\ ~Racy
    /\ HandlerIdle
    /\ advance_token < MaxCredit
    /\ advance_token' = advance_token + 1
    /\ mon_pause' = ObsPauseOther
    /\ mon_replay' = ObsReplayOther(TRUE)
    /\ mon_credit' = IF monitor # "C8" THEN mon_credit
                     ELSE IF play /\ paused /\ advance_token = 0 /\ advance_to_newline = 0
                     THEN 0 ELSE -1
    /\ UNCHANGED <<tokVars, play, paused, advance_to_newline, cfgVars, hwnd,
                   connVars, handlerVars, threadVars, focused, status_pub,
                   monitor, mon_first, mon_stop>>
    /\ mon_event' = NoEvent
    /\ UNCHANGED <<storeVars, listenerVars, appVars, cacheVars, dataVars, raceVars, outVars, uiVars>>

\* Typer._on_mqtt_message for CLOSE on APP: Typer.stop
Typer_stop ==
    /\ HandlerIdle
    /\ typer_running' = FALSE
    /\ play' = FALSE
    /\ mon_pause' = ObsPauseOther
    /\ mon_replay' = ObsReplayOther(FALSE)
    /\ mon_credit' = ObsCreditOther
    /\ UNCHANGED <<tokVars, paused, creditVars, cfgVars, hwnd, typer_connected,
                   handlerVars, threadVars, focused, status_pub, monitor,
                   mon_first, mon_stop>>
    /\ mon_event' = NoEvent
    /\ mon_out' = <<>>
    /\ mon_clean' = FALSE
    /\ UNCHANGED <<storeVars, listenerVars, appVars, cacheVars, dataVars, raceVars, uiVars>>

\* Typer._on_mqtt_message for a full-map message on STATE: _sync_from_state;
\* a window_title entry whose window exists makes _update_window_handle
\* take that window as the target
Typer_sync_from_state(cfg, titled) ==
    /\ HandlerIdle
    /\ pause_on_new_line' = cfg.pause_on_new_line
    /\ pause_on_window_not_focused' = cfg.pause_on_window_not_focused
    /\ refocus_window_on_resume' = cfg.refocus_window_on_resume
    /\ start_playback_paused' = cfg.start_playback_paused
    /\ hwnd' = (hwnd \/ titled)
    /\ UNCHANGED <<tokVars, play, paused, creditVars, connVars,
                   handlerVars, threadVars, focused, status_pub, monitor,
                   mon_pause, mon_replay, mon_first, mon_credit, mon_stop>>
    /\ mon_event' = NoEvent
    /\ UNCHANGED <<storeVars, listenerVars, appVars, cacheVars, dataVars, raceVars, outVars, uiVars>>

SyncFromState ==
    \E cfg \in Configs, titled \in BOOLEAN : Typer_sync_from_state(cfg, titled)

(***************************************************************************)
(* Environment: the operator or another program changes the active window. *)
(***************************************************************************)
FocusChange ==
    /\ hwnd
    /\ focused' = ~focused
    /\ UNCHANGED <<tokVars, play, paused, creditVars, cfgVars, hwnd, connVars,
                   handlerVars, threadVars, status_pub, monitor, mon_pause,
                   mon_replay, mon_first, mon_credit, mon_stop>>
    /\ mon_event' = NoEvent
    /\ UNCHANGED <<storeVars, listenerVars, appVars, cacheVars, dataVars, raceVars, outVars, uiVars>>

(***************************************************************************)
(* Playback Engine: the playback threads started by _handle_play.          *)
(***************************************************************************)
\* the token thread t is at in its `for token in self.text_tokens`
Tok(t) == w_toks[t][w_idx[t]]

\* `self.advance_to_newline > 0` or `self.advance_token > 0`, under
\* `self.play and self.paused`
CreditOpen(pl, pa) == pl /\ pa /\ (advance_to_newline > 0 \/ advance_token > 0)

\* Typer._play_with_delay after its sleep, and the head of type_text_tokens:
\* capture the active window, focus it, apply start_playback_paused, and
\* take the list the for loop iterates
Typer_play_with_delay(t) ==
    /\ w_pc[t] = "delay"
    /\ \E has_window \in BOOLEAN :
          /\ hwnd' = has_window
          /\ focused' = has_window
    /\ IF start_playback_paused
       THEN /\ paused' = TRUE
            /\ status_pub' = Typer_update_play_status("paused")
       ELSE UNCHANGED <<paused, status_pub>>
    /\ w_toks' = [w_toks EXCEPT ![t] = text_tokens]
    /\ w_idx' = [w_idx EXCEPT ![t] = 1]
    /\ w_pc' = [w_pc EXCEPT ![t] = IF text_tokens = <<>> THEN "finish" ELSE "while"]
    /\ mon_pause' = ObsPauseThread(play, paused')
    /\ UNCHANGED <<tokVars, play, creditVars, cfgVars, connVars, handlerVars,
                   w_ch, w_done, monitor, mon_replay, mon_first, mon_credit,
                   mon_stop>>
    /\ mon_event' = NoEvent
    /\ UNCHANGED <<storeVars, listenerVars, appVars, cacheVars, dataVars, raceVars, outVars, uiVars>>

\* one pass of `while not token_completed and self.play is True` in
\* type_text_tokens that does not reach type_token, or reaches its call
Typer_type_text_tokens(t) ==
    /\ w_pc[t] = "while"
    /\ IF ~play
       THEN /\ w_pc' = [w_pc EXCEPT ![t] = "finish"]
            /\ UNCHANGED <<paused, status_pub, focused>>
       ELSE /\ ~paused \/ CreditOpen(play, paused)
            /\ paused' = IF ~paused THEN PausedAfterCheck ELSE paused
            /\ status_pub' = IF ~paused THEN StatusAfterCheck ELSE status_pub
            /\ IF (~paused /\ WindowFocused) \/ CreditOpen(play, paused')
               THEN /\ focused' = FocusAfterActivate
                    /\ w_pc' = [w_pc EXCEPT ![t] = "type"]
               ELSE UNCHANGED <<focused, w_pc>>
    /\ mon_pause' = ObsPauseThread(play, paused')
    /\ UNCHANGED <<tokVars, play, creditVars, cfgVars, hwnd, connVars,
                   handlerVars, w_toks, w_idx, w_ch, w_done, monitor,
                   mon_replay, mon_first, mon_credit, mon_stop>>
    /\ mon_event' = IF play /\ ~paused /\ ~WindowFocused /\ w_pc' = w_pc
                    THEN Watch(Event("unfocused", t, "", FALSE)) ELSE NoEvent
    /\ UNCHANGED <<storeVars, listenerVars, appVars, cacheVars, dataVars, raceVars, outVars, uiVars>>

\* Typer.type_token, one pass of `while not token_completed and self.play`:
\* a key token is pressed when the window is focused, a literal span enters
\* its character loop, a RepeatedKey reaches `for char in token` and raises
Typer_type_token(t) ==
    /\ w_pc[t] = "type"
    /\ IF ~play
       THEN /\ w_pc' = [w_pc EXCEPT ![t] = "typed"]
            /\ w_done' = [w_done EXCEPT ![t] = FALSE]
            /\ UNCHANGED <<paused, advance_to_newline, status_pub, w_ch,
                           mon_first, mon_credit>>
       ELSE IF Tok(t).k = "rep"
       THEN /\ w_pc' = [w_pc EXCEPT ![t] = "crashed"]
            /\ UNCHANGED <<paused, advance_to_newline, status_pub, w_ch,
                           w_done, mon_first, mon_credit>>
       ELSE IF Tok(t).k = "lit"
       THEN /\ w_pc' = [w_pc EXCEPT ![t] = "chars"]
            /\ w_ch' = [w_ch EXCEPT ![t] = 0]
            /\ UNCHANGED <<paused, advance_to_newline, status_pub, w_done,
                           mon_first, mon_credit>>
       ELSE IF ~WindowFocused
       THEN /\ paused' = PausedAfterCheck
            /\ status_pub' = StatusAfterCheck
            /\ UNCHANGED <<advance_to_newline, w_pc, w_ch, w_done, mon_first,
                           mon_credit>>
       ELSE /\ LET pauses == \/ Tok(t).k = "atpause"
                             \/ /\ Tok(t).k = "enter"
                                /\ pause_on_new_line \/ advance_to_newline > 0
              IN /\ paused' = IF pauses THEN TRUE ELSE paused
                 /\ status_pub' = IF pauses THEN Typer_update_play_status("paused")
                                  ELSE status_pub
            /\ advance_to_newline' =
                  IF Tok(t).k = "enter" /\ advance_to_newline > 0
                  THEN advance_to_newline - 1 ELSE advance_to_newline
            /\ w_done' = [w_done EXCEPT ![t] = TRUE]
            /\ w_pc' = [w_pc EXCEPT ![t] = "typed"]
            /\ mon_first' = ObsFirst(w_idx[t])
            /\ mon_credit' = ObsCreditToken
            /\ UNCHANGED w_ch
    /\ mon_pause' = ObsPauseThread(play, paused')
    /\ UNCHANGED <<tokVars, play, advance_token, cfgVars, hwnd, connVars,
                   handlerVars, w_toks, w_idx, focused, monitor, mon_replay,
                   mon_stop>>
    /\ mon_event' =
          IF ~play \/ Tok(t).k \in {"rep", "lit"} THEN NoEvent
          ELSE IF ~WindowFocused THEN Watch(Event("unfocused", t, "", FALSE))
          ELSE IF Tok(t).k = "atpause" THEN Watch(Event("atpause", t, "", FALSE))
          ELSE Watch(Event("inject", t, "", FALSE))
    /\ mon_out' = IF play /\ Tok(t).k \notin {"rep", "lit"} /\ WindowFocused
                  THEN Injected(t, 0) ELSE mon_out
    /\ UNCHANGED mon_clean
    /\ UNCHANGED <<storeVars, listenerVars, appVars, cacheVars, dataVars, raceVars, uiVars>>

\* Typer.type_token, one pass of `while not char_completed` for the next
\* character of a literal span
Typer_type_char(t) ==
    /\ w_pc[t] = "chars"
    /\ paused' = PausedAfterCheck
    /\ status_pub' = StatusAfterCheck
    /\ IF (WindowFocused /\ ~paused) \/ CreditOpen(play, paused')
       THEN /\ focused' = FocusAfterActivate
            /\ w_ch' = [w_ch EXCEPT ![t] = @ + 1]
            /\ mon_first' = ObsFirst(w_idx[t])
            /\ IF w_ch[t] + 1 = Tok(t).n
               THEN /\ w_done' = [w_done EXCEPT ![t] = TRUE]
                    /\ w_pc' = [w_pc EXCEPT ![t] = "typed"]
                    /\ mon_credit' = ObsCreditToken
               ELSE UNCHANGED <<w_done, w_pc, mon_credit>>
            /\ mon_stop' = ObsStopChar(t)
       ELSE UNCHANGED <<focused, w_ch, w_done, w_pc, mon_first, mon_credit,
                        mon_stop>>
    /\ mon_pause' = ObsPauseThread(play, paused')
    /\ UNCHANGED <<tokVars, play, creditVars, cfgVars, hwnd, connVars,
                   handlerVars, w_toks, w_idx, monitor, mon_replay>>
    /\ mon_event' =
          IF w_ch' # w_ch THEN Watch(Event("inject", t, "", FALSE))
          ELSE IF ~WindowFocused THEN Watch(Event("unfocused", t, "", FALSE))
          ELSE NoEvent
    /\ mon_out' = IF w_ch' # w_ch THEN Injected(t, w_ch'[t]) ELSE mon_out
    /\ UNCHANGED mon_clean
    /\ UNCHANGED <<storeVars, listenerVars, appVars, cacheVars, dataVars, raceVars, uiVars>>

\* type_text_tokens after type_token returned: spend a token credit, leave
\* on `not self.play`, and for a completed token pop the preview and go on
Typer_token_typed(t) ==
    /\ w_pc[t] \in {"typed", "spent"}
    /\ Racy /\ w_pc[t] = "typed" => ~(w_done[t] /\ advance_token > 0)
    /\ advance_token' = IF w_pc[t] = "typed" /\ w_done[t] /\ advance_token > 0
                        THEN advance_token - 1 ELSE advance_token
    /\ IF ~play
       THEN /\ w_pc' = [w_pc EXCEPT ![t] = "finish"]
            /\ UNCHANGED <<text_tokens_preview, w_idx, w_done>>
       ELSE IF ~w_done[t]
       THEN /\ w_pc' = [w_pc EXCEPT ![t] = "while"]
            /\ UNCHANGED <<text_tokens_preview, w_idx, w_done>>
       ELSE /\ text_tokens_preview' = IF text_tokens_preview # <<>>
                                      THEN Tail(text_tokens_preview)
                                      ELSE text_tokens_preview
            /\ w_done' = [w_done EXCEPT ![t] = FALSE]
            /\ IF w_idx[t] = Len(w_toks[t])
               THEN /\ w_pc' = [w_pc EXCEPT ![t] = "finish"]
                    /\ UNCHANGED w_idx
               ELSE /\ w_pc' = [w_pc EXCEPT ![t] = "while"]
                    /\ w_idx' = [w_idx EXCEPT ![t] = @ + 1]
    /\ mon_stop' = ObsStopLeave(t)
    /\ UNCHANGED <<text_tokens, original_text_tokens, play, paused,
                   advance_to_newline, cfgVars, hwnd, connVars, handlerVars,
                   w_toks, w_ch, focused, status_pub, monitor, mon_pause,
                   mon_replay, mon_first, mon_credit>>
    /\ mon_event' = NoEvent
    /\ UNCHANGED <<storeVars, listenerVars, appVars, cacheVars, dataVars, raceVars, outVars, uiVars>>

\* type_text_tokens, `if token_completed and self.advance_token > 0:` found
\* true: `self.advance_token -= 1` reads the counter ...
Typer_spend_load(t) ==
    /\ Racy
    /\ w_pc[t] = "typed"
    /\ w_done[t] /\ advance_token > 0
    /\ w_reg' = [w_reg EXCEPT ![t] = advance_token]
    /\ w_pc' = [w_pc EXCEPT ![t] = "spend"]
    /\ UNCHANGED <<tokVars, play, paused, creditVars, cfgVars, hwnd, connVars,
                   handlerVars, w_toks, w_idx, w_ch, w_done, focused,
                   status_pub, monitor, mon_pause, mon_replay, mon_first,
                   mon_credit, mon_stop>>
    /\ mon_event' = NoEvent
    /\ UNCHANGED <<h_reg, mon_granted, mon_spent>>
    /\ UNCHANGED <<storeVars, listenerVars, appVars, cacheVars, dataVars,
                   outVars, uiVars>>

\* ... and writes what it read, less one
Typer_spend_store(t) ==
    /\ w_pc[t] = "spend"
    /\ advance_token' = w_reg[t] - 1
    /\ mon_spent' = mon_spent + 1
    /\ w_pc' = [w_pc EXCEPT ![t] = "spent"]
    /\ UNCHANGED <<tokVars, play, paused, advance_to_newline, cfgVars, hwnd,
                   connVars, handlerVars, w_toks, w_idx, w_ch, w_done, focused,
                   status_pub, monitor, mon_pause, mon_replay, mon_first,
                   mon_credit, mon_stop>>
    /\ mon_event' = NoEvent
    /\ UNCHANGED <<h_reg, w_reg, mon_granted>>
    /\ UNCHANGED <<storeVars, listenerVars, appVars, cacheVars, dataVars,
                   outVars, uiVars>>

\* how many advance_token commands a behaviour that follows the steps of
\* the counter delivers
MaxGrants == 2

\* Typer._handle_advance_token, `self.advance_token += 1`: the message
\* thread reads the counter ...
Typer_grant_load ==
    /\ Racy
    /\ HandlerIdle
    /\ mon_granted < MaxGrants
    /\ h_reg' = advance_token
    /\ h_pc' = "advance_token"
    /\ UNCHANGED <<tokVars, play, paused, creditVars, cfgVars, hwnd, connVars,
                   h_state, threadVars, focused, status_pub, monitor,
                   mon_pause, mon_replay, mon_first, mon_credit, mon_stop>>
    /\ mon_event' = NoEvent
    /\ UNCHANGED <<w_reg, mon_granted, mon_spent>>
    /\ UNCHANGED <<storeVars, listenerVars, appVars, cacheVars, dataVars,
                   outVars, uiVars>>

\* ... writes what it read, plus one, and publishes the result
Typer_grant_store ==
    /\ h_pc = "advance_token"
    /\ advance_token' = h_reg + 1
    /\ mon_granted' = mon_granted + 1
    /\ h_pc' = "idle"
    /\ UNCHANGED <<tokVars, play, paused, advance_to_newline, cfgVars, hwnd,
                   connVars, h_state, threadVars, focused, status_pub, monitor,
                   mon_pause, mon_replay, mon_first, mon_credit, mon_stop>>
    /\ mon_event' = NoEvent
    /\ UNCHANGED <<h_reg, w_reg, mon_spent>>
    /\ UNCHANGED <<storeVars, listenerVars, appVars, cacheVars, dataVars,
                   outVars, uiVars>>

SpendLoad == \E t \in Threads : Typer_spend_load(t)
SpendStore == \E t \in Threads : Typer_spend_store(t)

\* the tail of type_text_tokens: "Playback finished"
Typer_playback_finished(t) ==
    /\ w_pc[t] = "finish"
    /\ play' = FALSE
    /\ paused' = FALSE
    /\ status_pub' = Typer_update_play_status("stopped")
    /\ w_pc' = [w_pc EXCEPT ![t] = "idle"]
    /\ w_toks' = [w_toks EXCEPT ![t] = <<>>]
    /\ w_idx' = [w_idx EXCEPT ![t] = 0]
    /\ w_ch' = [w_ch EXCEPT ![t] = 0]
    /\ w_done' = [w_done EXCEPT ![t] = FALSE]
    /\ mon_pause' = ObsPauseThread(FALSE, FALSE)
    /\ mon_credit' = ObsCreditOther
    /\ UNCHANGED <<tokVars, creditVars, cfgVars, hwnd, connVars, handlerVars,
                   focused, monitor, mon_replay, mon_first, mon_stop>>
    /\ mon_event' = NoEvent
    /\ UNCHANGED <<storeVars, listenerVars, appVars, cacheVars, dataVars, raceVars, outVars, uiVars>>

PlayWithDelay == \E t \in Threads : Typer_play_with_delay(t)
TypeTextTokens == \E t \in Threads : Typer_type_text_tokens(t)
TypeToken == \E t \in Threads : Typer_type_token(t)
TypeChar == \E t \in Threads : Typer_type_char(t)
TokenTyped == \E t \in Threads : Typer_token_typed(t)
PlaybackFinished == \E t \in Threads : Typer_playback_finished(t)

\* the engine with a file loaded, played and paused, the credits granted
\* and spent step by step
RaceNext ==
    \/ Typer_start
    \/ Typer_on_mqtt_connect
    \/ LoadFile
    \/ Typer_handle_play
    \/ Typer_handle_pause
    \/ Typer_handle_pause_publish
    \/ Typer_grant_load
    \/ Typer_grant_store
    \/ PlayWithDelay
    \/ TypeTextTokens
    \/ TypeToken
    \/ TypeChar
    \/ TokenTyped
    \/ SpendLoad
    \/ SpendStore
    \/ PlaybackFinished

EngineNext ==
    \/ Typer_start
    \/ Typer_on_mqtt_connect
    \/ LoadFile
    \/ Typer_handle_play
    \/ Typer_handle_stop
    \/ Typer_handle_pause
    \/ Typer_handle_pause_publish
    \/ Typer_handle_advance_newline
    \/ Typer_handle_advance_token
    \/ Typer_stop
    \/ SyncFromState
    \/ FocusChange
    \/ PlayWithDelay
    \/ TypeTextTokens
    \/ TypeToken
    \/ TypeChar
    \/ TokenTyped
    \/ PlaybackFinished

(***************************************************************************)
(* Listener (listener.py).                                                 *)
(***************************************************************************)
\* slots 1..MaxSlot stand for the slots of range(1, 9)
MaxSlot == 3
Slots == 1..MaxSlot

\* self._recording_slot is None
NoSlot == 0

\* InputSource
Sources == {"keyboard", "mouse", "gamepad"}
NoSource == "none"

\* the names of the gamepad devices that may be plugged in
Pads == {"pad1", "pad2"}
NoPad == "nopad"

\* what each source reports: _format_key, _format_button / scroll_event,
\* event.code
Keys == {"a"}
Buttons == {"left"}
Scrolls == {"scroll_up"}
Codes == {"BTN_SOUTH"}

\* HotkeyEvent; message is always None and suppress only decides what the
\* callback returns to the operating system, so neither is kept
HotkeyEvent(slot, source, value, gamepad_name) ==
    [slot |-> slot, source |-> source, value |-> value,
     gamepad_name |-> gamepad_name]

\* None in self._hotkeys
NoHotkey == HotkeyEvent(NoSlot, NoSource, "", NoPad)

\* what the last step of the Listener was
Step(kind, source, value, device, slot, mode) ==
    [kind |-> kind, source |-> source, value |-> value, device |-> device,
     slot |-> slot, mode |-> mode]

NoStep == Step("none", NoSource, "", NoPad, NoSlot, "")

\* Listener.__init__
ListenerInit ==
    /\ hotkeys = [slot \in Slots |-> NoHotkey]
    /\ recording_slot = NoSlot
    /\ recording_source = NoSource
    /\ selected_gamepad = NoPad
    /\ pressed_gamepad = {}
    /\ listener_running = FALSE
    /\ listener_listening = FALSE
    /\ listener_connected = FALSE
    /\ held = {}
    /\ plugged = {}
    /\ l_step = NoStep
    /\ l_fired = <<>>
    /\ l_dropped = NoSlot

\* devices are plugged in and pulled out while the Listener runs only in the
\* behaviours that observe it; in the others they stay as they were when it
\* started
Hotplug == ~listener_running \/ monitor = "C22"

\* a gamepad is plugged in
Attach(pad) ==
    /\ Hotplug
    /\ pad \notin plugged
    /\ plugged' = plugged \cup {pad}
    /\ l_step' = NoStep
    /\ l_fired' = <<>>
    /\ l_dropped' = NoSlot
    /\ UNCHANGED <<hotkeys, recording_slot, recording_source, selected_gamepad,
                   pressed_gamepad, listener_running, listener_listening,
                   listener_connected, held>>
    /\ UNCHANGED <<storeVars, typerVars, appVars, cacheVars, dataVars, raceVars, outVars, uiVars>>

\* a gamepad is pulled out: its buttons are not reported any more, and no
\* release event comes for those that were down
Detach(pad) ==
    /\ Hotplug
    /\ pad \in plugged
    /\ plugged' = plugged \ {pad}
    /\ held' = {button \in held : button[1] # pad}
    /\ l_step' = NoStep
    /\ l_fired' = <<>>
    /\ l_dropped' = NoSlot
    /\ UNCHANGED <<hotkeys, recording_slot, recording_source, selected_gamepad,
                   pressed_gamepad, listener_running, listener_listening,
                   listener_connected>>
    /\ UNCHANGED <<storeVars, typerVars, appVars, cacheVars, dataVars, raceVars, outVars, uiVars>>

AttachGamepad == \E pad \in Pads : Attach(pad)
DetachGamepad == \E pad \in Pads : Detach(pad)

\* get_gamepads()[0]['name'] if a gamepad is plugged in, else None
FirstGamepad == IF plugged = {} THEN {NoPad} ELSE plugged

\* listener_process: Listener(mqtt_port=port), whose constructor selects
\* the first gamepad that is plugged in if there is one, then start(), which
\* starts the input listeners unless connect() raises
listener_process ==
    /\ ~listener_running
    /\ \E first \in FirstGamepad, connects \in BOOLEAN :
        /\ selected_gamepad' = first
        /\ listener_running' = TRUE
        /\ listener_listening' = connects
    /\ l_step' = NoStep
    /\ l_fired' = <<>>
    /\ l_dropped' = NoSlot
    /\ UNCHANGED <<hotkeys, recording_slot, recording_source, pressed_gamepad,
                   listener_connected, held>>
    /\ UNCHANGED <<storeVars, typerVars, plugged, appVars, cacheVars, dataVars, raceVars, outVars, uiVars>>

\* Listener._on_mqtt_connect
Listener_on_mqtt_connect ==
    /\ listener_listening
    /\ ~listener_connected
    /\ \E rc \in {0, 5} : listener_connected' = (rc = 0)
    /\ l_step' = NoStep
    /\ l_fired' = <<>>
    /\ l_dropped' = NoSlot
    /\ UNCHANGED <<hotkeys, recording_slot, recording_source, selected_gamepad,
                   pressed_gamepad, listener_running, listener_listening,
                   held>>
    /\ UNCHANGED <<storeVars, typerVars, plugged, appVars, cacheVars, dataVars, raceVars, outVars, uiVars>>

RegisterRaisesIfPending(slot, source) == recording_slot # NoSlot

\* register_hotkey raises before it assigns anything
RegisterRaises(slot, source) ==
    \/ slot < 1
    \/ slot > MaxSlot
    \/ source \notin Sources
    \/ source = "gamepad" /\ selected_gamepad = NoPad

\* Listener._on_mqtt_message, cmd "register": register_hotkey, whose
\* exceptions are logged
Listener_register_hotkey(slot, source) ==
    /\ listener_connected
    /\ IF RegisterRaises(slot, source)
       THEN /\ l_step' = Step("register", source, "", NoPad, slot, "raised")
            /\ l_dropped' = NoSlot
            /\ UNCHANGED <<recording_slot, recording_source>>
       ELSE /\ recording_slot' = slot
            /\ recording_source' = source
            /\ l_dropped' = IF slot # recording_slot THEN recording_slot ELSE NoSlot
            /\ l_step' = Step("register", source, "", NoPad, slot, "recording")
    /\ l_fired' = <<>>
    /\ UNCHANGED <<hotkeys, selected_gamepad, pressed_gamepad,
                   listener_running, listener_listening, listener_connected,
                   held>>
    /\ UNCHANGED <<storeVars, typerVars, plugged, appVars, cacheVars, dataVars, raceVars, outVars, uiVars>>

\* the register commands: every slot with every source, and one command
\* for each way register_hotkey raises
Registers ==
    (Slots \X Sources) \cup
        {<<0, "keyboard">>, <<MaxSlot + 1, "mouse">>, <<1, "touch">>}

Register == \E cmd \in Registers : Listener_register_hotkey(cmd[1], cmd[2])

ClearedAll(slot) == [other \in Slots |-> NoHotkey]

\* self._hotkeys[slot] = None
Cleared(slot) == [hotkeys EXCEPT ![slot] = NoHotkey]

\* Listener._on_mqtt_message, cmd "unregister": clear_hotkey; a slot outside
\* the table adds a key whose value is None, which no loop ever matches
Listener_clear_hotkey(slot) ==
    /\ listener_connected
    /\ hotkeys' = IF slot \in Slots THEN Cleared(slot) ELSE hotkeys
    /\ l_step' = Step("unregister", NoSource, "", NoPad,
                      IF slot \in Slots THEN slot ELSE NoSlot,
                      IF slot \in Slots /\ hotkeys[slot] # NoHotkey
                      THEN "bound" ELSE "empty")
    /\ l_fired' = <<>>
    /\ l_dropped' = NoSlot
    /\ UNCHANGED <<recording_slot, recording_source, selected_gamepad,
                   pressed_gamepad, listener_running, listener_listening,
                   listener_connected, held>>
    /\ UNCHANGED <<storeVars, typerVars, plugged, appVars, cacheVars, dataVars, raceVars, outVars, uiVars>>

Unregister == \E slot \in 0..(MaxSlot + 1) : Listener_clear_hotkey(slot)

\* Listener.emit of _trigger_hotkey: the event carries the slot
Listener_trigger_hotkey(slot) ==
    IF listener_connected THEN <<slot>> ELSE <<>>

MatchesSourceOnly(hotkey, source, value, device) == hotkey.source = source

\* the test of the loops over self._hotkeys.items()
Matches(hotkey, source, value, device) ==
    /\ hotkey # NoHotkey
    /\ hotkey.source = source
    /\ hotkey.value = value
    /\ source = "gamepad" =>
           (hotkey.gamepad_name = NoPad \/ hotkey.gamepad_name = device)

\* for slot, hotkey in self._hotkeys.items(): the dict keeps the order in
\* which range(1, 9) inserted its keys
RECURSIVE TriggerLoop(_, _, _, _)
TriggerLoop(slot, source, value, device) ==
    IF slot > MaxSlot
    THEN <<>>
    ELSE (IF Matches(hotkeys[slot], source, value, device)
          THEN Listener_trigger_hotkey(slot)
          ELSE <<>>) \o TriggerLoop(slot + 1, source, value, device)

RecordNothing(source) == FALSE

\* if self._recording_slot and self._recording_source == <source>
Recording(source) == recording_slot # NoSlot /\ recording_source = source

\* the recording branch of the three handlers: the slot takes the event
\* as its binding and the recording fields are reset
Capture(source, value, device) ==
    /\ hotkeys' = [hotkeys EXCEPT ![recording_slot] =
                       HotkeyEvent(recording_slot, source, value, device)]
    /\ recording_slot' = NoSlot
    /\ recording_source' = NoSource
    /\ l_step' = Step("press", source, value, device, recording_slot, "record")
    /\ l_fired' = <<>>
    /\ UNCHANGED l_dropped

\* the trigger branch of the keyboard and mouse handlers
Trigger(source, value) ==
    /\ l_fired' = TriggerLoop(1, source, value, NoPad)
    /\ l_step' = Step("press", source, value, NoPad, NoSlot, "trigger")
    /\ l_dropped' = NoSlot
    /\ UNCHANGED <<hotkeys, recording_slot, recording_source>>

\* Listener._on_keyboard_press
Listener_on_keyboard_press(key) ==
    /\ listener_listening
    /\ IF Recording("keyboard")
       THEN Capture("keyboard", key, NoPad)
       ELSE Trigger("keyboard", key)
    /\ UNCHANGED <<selected_gamepad, pressed_gamepad, listener_running,
                   listener_listening, listener_connected, held>>
    /\ UNCHANGED <<storeVars, typerVars, plugged, appVars, cacheVars, dataVars, raceVars, outVars, uiVars>>

KeyboardPress == \E key \in Keys : Listener_on_keyboard_press(key)

\* Listener._on_mouse_click: a release only leaves _pressed_buttons
Listener_on_mouse_click(button, pressed) ==
    /\ listener_listening
    /\ IF ~pressed
       THEN /\ l_step' = Step("release", "mouse", button, NoPad, NoSlot, "")
            /\ l_fired' = <<>>
            /\ l_dropped' = NoSlot
            /\ UNCHANGED <<hotkeys, recording_slot, recording_source>>
       ELSE IF Recording("mouse")
       THEN Capture("mouse", button, NoPad)
       ELSE Trigger("mouse", button)
    /\ UNCHANGED <<selected_gamepad, pressed_gamepad, listener_running,
                   listener_listening, listener_connected, held>>
    /\ UNCHANGED <<storeVars, typerVars, plugged, appVars, cacheVars, dataVars, raceVars, outVars, uiVars>>

MouseClick ==
    \E button \in Buttons, pressed \in BOOLEAN :
        Listener_on_mouse_click(button, pressed)

\* Listener._on_mouse_scroll
Listener_on_mouse_scroll(scroll_event) ==
    /\ listener_listening
    /\ IF Recording("mouse")
       THEN Capture("mouse", scroll_event, NoPad)
       ELSE Trigger("mouse", scroll_event)
    /\ UNCHANGED <<selected_gamepad, pressed_gamepad, listener_running,
                   listener_listening, listener_connected, held>>
    /\ UNCHANGED <<storeVars, typerVars, plugged, appVars, cacheVars, dataVars, raceVars, outVars, uiVars>>

MouseScroll == \E scroll_event \in Scrolls : Listener_on_mouse_scroll(scroll_event)

\* what a device reports: a press of a button that is up (state 1), a
\* further non-zero state of one that is down ("hold", an axis that moves
\* on), or its release (state 0)
Reports(device, code, kind) ==
    /\ device \in plugged
    /\ CASE kind = "press" -> <<device, code>> \notin held
        [] kind = "hold" -> <<device, code>> \in held
        [] kind = "release" -> <<device, code>> \in held

\* Listener._gamepad_loop, one event of get_gamepad()
Listener_gamepad_event(device, code, kind) ==
    /\ listener_listening
    /\ Reports(device, code, kind)
    /\ held' = IF kind = "release"
               THEN held \ {<<device, code>>}
               ELSE held \cup {<<device, code>>}
    /\ IF kind = "release"
       THEN /\ pressed_gamepad' = pressed_gamepad \ {code}
            /\ l_step' = Step("release", "gamepad", code, device, NoSlot, "")
            /\ l_fired' = <<>>
            /\ l_dropped' = NoSlot
            /\ UNCHANGED <<hotkeys, recording_slot, recording_source>>
       ELSE IF selected_gamepad # NoPad /\ device # selected_gamepad
       THEN /\ l_step' = Step(kind, "gamepad", code, device, NoSlot, "skipped")
            /\ l_fired' = <<>>
            /\ l_dropped' = NoSlot
            /\ UNCHANGED <<hotkeys, recording_slot, recording_source,
                           pressed_gamepad>>
       ELSE IF Recording("gamepad")
       THEN /\ Capture("gamepad", code, device)
            /\ UNCHANGED pressed_gamepad
       ELSE /\ pressed_gamepad' = pressed_gamepad \cup {code}
            /\ l_fired' = IF code \notin pressed_gamepad
                          THEN TriggerLoop(1, "gamepad", code, device)
                          ELSE <<>>
            /\ l_step' = Step(kind, "gamepad", code, device, NoSlot, "trigger")
            /\ l_dropped' = NoSlot
            /\ UNCHANGED <<hotkeys, recording_slot, recording_source>>
    /\ UNCHANGED <<selected_gamepad, listener_running, listener_listening,
                   listener_connected>>
    /\ UNCHANGED <<storeVars, typerVars, plugged, appVars, cacheVars, dataVars, raceVars, outVars, uiVars>>

GamepadEvent ==
    \E device \in Pads, code \in Codes, kind \in {"press", "hold", "release"} :
        Listener_gamepad_event(device, code, kind)

ListenerNext ==
    \/ listener_process
    \/ Listener_on_mqtt_connect
    \/ Register
    \/ Unregister
    \/ KeyboardPress
    \/ MouseClick
    \/ MouseScroll
    \/ GamepadEvent
    \/ AttachGamepad
    \/ DetachGamepad

(***************************************************************************)
(* UI (app.py): the hotkeys it restores at startup.                        *)
(***************************************************************************)
\* APP_STATE['hotkeys'] before load_hotkeys
AppInit ==
    /\ app_hotkeys = [slot \in Slots |-> NoHotkey]
    /\ app_pc = "new"
    /\ app_restored = [slot \in Slots |-> NoHotkey]
    /\ app_reported = {}
    /\ to_listener = <<>>
    /\ to_app = <<>>
    /\ app_running = TRUE
    /\ broker_running = TRUE
    /\ close_published = FALSE

\* the part of the UI's and the broker's state that the end of the
\* application writes
closeVars == <<app_running, broker_running, close_published>>

\* what hotkeys.json may hold for a slot
Saved(slot) ==
    {NoHotkey,
     HotkeyEvent(slot, "keyboard", "a", NoPad),
     HotkeyEvent(slot, "mouse", "left", NoPad),
     HotkeyEvent(slot, "gamepad", "BTN_SOUTH", "pad1")}

\* a message on the LISTENER topic
Restore(slot, hotkey) == [kind |-> "hotkey_registered", slot |-> slot,
                          hotkey |-> hotkey]
UnregisterMsg(slot) == [kind |-> "unregister", slot |-> slot,
                        hotkey |-> NoHotkey]

\* load_hotkeys
App_load_hotkeys ==
    /\ app_pc = "new"
    /\ \E saved \in [Slots -> UNION {Saved(slot) : slot \in Slots}] :
        /\ \A slot \in Slots : saved[slot] \in Saved(slot)
        /\ app_hotkeys' = saved
        /\ app_restored' = saved
    /\ app_pc' = "loaded"
    /\ UNCHANGED <<app_reported, to_listener, to_app, closeVars>>
    /\ UNCHANGED <<storeVars, typerVars, listenerVars, cacheVars, dataVars, raceVars, outVars, uiVars>>

\* the restore messages of the bound slots, in the order of the dict
RECURSIVE RestoreMsgs(_)
RestoreMsgs(slot) ==
    IF slot > MaxSlot
    THEN <<>>
    ELSE (IF app_hotkeys[slot] # NoHotkey
          THEN <<Restore(slot, app_hotkeys[slot])>>
          ELSE <<>>) \o RestoreMsgs(slot + 1)

\* what the broker hands on of a publish on LISTENER: a client gets the
\* messages published while it is subscribed
Subscribed(is_subscribed, msgs) == IF is_subscribed THEN msgs ELSE <<>>

\* send_hotkeys_to_listener, run once by the timer of on_mqtt_ready: it
\* returns at once if the UI is not connected yet
App_send_hotkeys_to_listener ==
    /\ app_pc = "loaded"
    /\ \E connected \in BOOLEAN :
        /\ to_listener' = to_listener \o
               Subscribed(connected /\ listener_connected, RestoreMsgs(1))
        /\ to_app' = to_app \o Subscribed(connected, RestoreMsgs(1))
    /\ app_pc' = "sent"
    /\ UNCHANGED <<app_hotkeys, app_restored, app_reported, closeVars>>
    /\ UNCHANGED <<storeVars, typerVars, listenerVars, cacheVars, dataVars, raceVars, outVars, uiVars>>

\* Listener._on_mqtt_message for a message the UI published: one that has
\* an "event" field is ignored, an unregister clears the slot
Listener_on_app_message ==
    /\ to_listener # <<>>
    /\ to_listener' = Tail(to_listener)
    /\ hotkeys' = IF Head(to_listener).kind = "unregister"
                  THEN Cleared(Head(to_listener).slot)
                  ELSE hotkeys
    /\ l_step' = NoStep
    /\ l_fired' = <<>>
    /\ l_dropped' = NoSlot
    /\ UNCHANGED <<recording_slot, recording_source, selected_gamepad,
                   pressed_gamepad, listener_running, listener_listening,
                   listener_connected, held, plugged>>
    /\ UNCHANGED <<app_hotkeys, app_pc, app_restored, app_reported, to_app,
                   closeVars>>
    /\ UNCHANGED <<storeVars, typerVars, cacheVars, dataVars, raceVars, outVars, uiVars>>

\* the slots other than `slot` that the UI shows bound to the same input
Existing(slot, hotkey) ==
    {existing \in Slots \ {slot} :
        /\ app_hotkeys[existing] # NoHotkey
        /\ app_hotkeys[existing].source = hotkey.source
        /\ app_hotkeys[existing].value = hotkey.value
        /\ hotkey.source = "gamepad" =>
               app_hotkeys[existing].gamepad_name = hotkey.gamepad_name}

\* the first of them in the order of the dict
FirstExisting(slot, hotkey) ==
    CHOOSE existing \in Existing(slot, hotkey) :
        \A other \in Existing(slot, hotkey) : existing <= other

\* check_mqtt_messages, topic LISTENER: the UI is subscribed to the topic
\* it publishes on, so it gets its own restore messages back and handles
\* them as hotkey_registered; hotkey_restoration_error clears the slot and
\* shows the reason
App_check_mqtt_messages ==
    /\ to_app # <<>>
    /\ to_app' = Tail(to_app)
    /\ LET msg == Head(to_app)
       IN  CASE msg.kind = "hotkey_registered" ->
                  IF Existing(msg.slot, msg.hotkey) # {}
                  THEN /\ app_hotkeys' =
                              [app_hotkeys EXCEPT
                                  ![FirstExisting(msg.slot, msg.hotkey)] = NoHotkey,
                                  ![msg.slot] = msg.hotkey]
                       /\ to_listener' = to_listener \o
                              Subscribed(listener_connected,
                                  <<UnregisterMsg(FirstExisting(msg.slot,
                                                                msg.hotkey))>>)
                       /\ UNCHANGED app_reported
                  ELSE /\ app_hotkeys' = [app_hotkeys EXCEPT
                                              ![msg.slot] = msg.hotkey]
                       /\ UNCHANGED <<to_listener, app_reported>>
             [] msg.kind = "hotkey_restoration_error" ->
                  /\ app_hotkeys' = [app_hotkeys EXCEPT ![msg.slot] = NoHotkey]
                  /\ app_reported' = app_reported \cup {msg.slot}
                  /\ UNCHANGED to_listener
             [] OTHER ->
                  UNCHANGED <<app_hotkeys, to_listener, app_reported>>
    /\ UNCHANGED <<app_pc, app_restored, closeVars>>
    /\ UNCHANGED <<storeVars, typerVars, listenerVars, cacheVars, dataVars, raceVars, outVars, uiVars>>

\* the start of the UI and of the Listener, and the messages between them
RestoreNext ==
    \/ listener_process
    \/ Listener_on_mqtt_connect
    \/ App_load_hotkeys
    \/ App_send_hotkeys_to_listener
    \/ Listener_on_app_message
    \/ App_check_mqtt_messages

(***************************************************************************)
(* UI (app.py): the playback controls and the STATE topic.                 *)
(***************************************************************************)
Statuses == {"playing", "paused", "stopped"}

\* a message on STATE as check_mqtt_messages reads it: data.get("cmd"),
\* data.get("key"), data.get("value")
StateMsg(cmd, key, value) == [cmd |-> cmd, key |-> key, value |-> value]

\* {"state-data": APP_STATE}, what publish_app_state publishes: it has no
\* "cmd"
StateData == StateMsg("", "", "")

\* how many messages wait in mqtt_queue at most
MaxQueue == 2

\* what comes on STATE from the other clients: the Playback Engine's
\* {"cmd": "add", "key": "play_status", ...} and {"cmd": "get"}, the Store's
\* responses, which have no "cmd", and an update_state from a client outside
\* the application (no process of the application publishes one)
StateTraffic ==
    {StateMsg("add", "play_status", status) : status \in Statuses}
    \cup {StateMsg("get", "", ""), StateData}
    \cup {StateMsg("update_state", "play_status", status) : status \in Statuses}

\* publish_app_state, n times: the broker hands the UI its own messages on
\* STATE back, as it is subscribed to STATE
App_publish_app_state(connected, n) ==
    IF connected THEN [i \in 1..n |-> StateData] ELSE <<>>

\* on_mqtt_message: a message on STATE is put into mqtt_queue
App_on_mqtt_message(msg) ==
    /\ app_running
    /\ Len(to_ui) < MaxQueue
    /\ to_ui' = Append(to_ui, msg)
    /\ mon_ui' = ""
    /\ UNCHANGED <<play_status, source_file_path>>
    /\ UNCHANGED <<storeVars, typerVars, listenerVars, appVars, cacheVars,
                   dataVars, raceVars, outVars>>

\* open_native_file_dialog with a file chosen: playback is shown stopped;
\* if the file can be read its path is kept and load_file goes to TYPER
App_open_native_file_dialog ==
    /\ app_running
    /\ \E connected \in BOOLEAN :
        LET published == App_publish_app_state(
                connected, IF play_status \in {"playing", "paused"} THEN 1 ELSE 0)
        IN  /\ Len(to_ui) + Len(published) <= MaxQueue
            /\ to_ui' = to_ui \o published
    /\ play_status' = "stopped"
    /\ \E readable \in BOOLEAN :
        source_file_path' = IF readable THEN "file" ELSE source_file_path
    /\ mon_ui' = "open"
    /\ UNCHANGED <<storeVars, typerVars, listenerVars, appVars, cacheVars,
                   dataVars, raceVars, outVars>>

\* toggle_playback: without a file it only warns; playing becomes paused
\* and no command is sent; paused and stopped become playing and
\* {"cmd": "play"} goes to TYPER; publish_app_state in the branch and once
\* more in state_changed
App_toggle_playback ==
    /\ app_running
    /\ IF source_file_path = ""
       THEN UNCHANGED <<play_status, to_ui>>
       ELSE /\ play_status' = IF play_status = "playing" THEN "paused" ELSE "playing"
            /\ \E connected \in BOOLEAN :
                /\ Len(to_ui) + Len(App_publish_app_state(connected, 2)) <= MaxQueue
                /\ to_ui' = to_ui \o App_publish_app_state(connected, 2)
    /\ mon_ui' = "toggle"
    /\ UNCHANGED source_file_path
    /\ UNCHANGED <<storeVars, typerVars, listenerVars, appVars, cacheVars,
                   dataVars, raceVars, outVars>>

\* stop_playback: shown stopped already, it only warns; else play_status
\* becomes stopped and state_changed publishes APP_STATE: no command goes to
\* TYPER
App_stop_playback ==
    /\ app_running
    /\ IF play_status = "stopped"
       THEN UNCHANGED <<play_status, to_ui>>
       ELSE /\ play_status' = "stopped"
            /\ \E connected \in BOOLEAN :
                /\ Len(to_ui) + Len(App_publish_app_state(connected, 1)) <= MaxQueue
                /\ to_ui' = to_ui \o App_publish_app_state(connected, 1)
    /\ mon_ui' = "stop"
    /\ UNCHANGED source_file_path
    /\ UNCHANGED <<storeVars, typerVars, listenerVars, appVars, cacheVars,
                   dataVars, raceVars, outVars>>

\* the keys of APP_STATE that the model follows
AppStateKeys == {"play_status", "source_file_path"}

\* check_mqtt_messages, topic STATE: only {"cmd": "update_state"} with a key
\* of APP_STATE is taken, and state_changed publishes APP_STATE
App_check_state_messages ==
    /\ app_running
    /\ to_ui # <<>>
    /\ LET msg == Head(to_ui)
           taken == msg.cmd = "update_state" /\ msg.key \in AppStateKeys
       IN  /\ play_status' = IF taken /\ msg.key = "play_status"
                             THEN msg.value ELSE play_status
           /\ source_file_path' = IF taken /\ msg.key = "source_file_path"
                                  THEN msg.value ELSE source_file_path
           /\ \E connected \in BOOLEAN :
                to_ui' = Tail(to_ui) \o
                    App_publish_app_state(connected, IF taken THEN 1 ELSE 0)
    /\ mon_ui' = "message"
    /\ UNCHANGED <<storeVars, typerVars, listenerVars, appVars, cacheVars,
                   dataVars, raceVars, outVars>>

OnStateMessage == \E msg \in StateTraffic : App_on_mqtt_message(msg)

ControlsNext ==
    \/ OnStateMessage
    \/ App_open_native_file_dialog
    \/ App_toggle_playback
    \/ App_stop_playback
    \/ App_check_state_messages

(***************************************************************************)
(* The end of the application: CLOSE on APP (broker.py, app.py).           *)
(***************************************************************************)
restoreVars == <<app_hotkeys, app_pc, app_restored, app_reported, to_listener,
                 to_app>>

\* broker.py on_message for {"command": "SHUTDOWN"} on BROKER: it publishes
\* {"command": "CLOSE"} on APP and shuts down half a second later
Broker_on_shutdown ==
    /\ broker_running
    /\ ~close_published
    /\ close_published' = TRUE
    /\ UNCHANGED <<app_running, broker_running, restoreVars>>
    /\ UNCHANGED <<storeVars, typerVars, listenerVars, cacheVars, dataVars, raceVars, outVars, uiVars>>

\* broker.py on_message for {"command": "CLOSE"} on APP
Broker_on_close ==
    /\ close_published
    /\ broker_running
    /\ broker_running' = FALSE
    /\ UNCHANGED <<app_running, close_published, restoreVars>>
    /\ UNCHANGED <<storeVars, typerVars, listenerVars, cacheVars, dataVars, raceVars, outVars, uiVars>>

\* check_mqtt_messages, topic APP: only {"cmd": "CLOSE"} shuts the UI down
App_on_app_message(payload) ==
    /\ app_running
    /\ app_running' = (payload # "cmd=CLOSE")
    /\ UNCHANGED <<broker_running, close_published, restoreVars>>
    /\ UNCHANGED <<storeVars, typerVars, listenerVars, cacheVars, dataVars, raceVars, outVars, uiVars>>

\* the CLOSE that was published reaches the subscribers of APP: the Store,
\* the Playback Engine, the UI and the broker's own client; the Listener
\* subscribes to LISTENER only
CloseToStore == close_published /\ StateManager_on_app_message("command=CLOSE")
CloseToTyper == close_published /\ typer_running /\ typer_connected /\ Typer_stop
CloseToApp == close_published /\ App_on_app_message("command=CLOSE")

\* the processes start and connect before the application is closed
StoreUp ==
    ~close_published /\ (StateManager_start \/ StateManager_on_mqtt_connect)
TyperUp == ~close_published /\ (Typer_start \/ Typer_on_mqtt_connect)
ListenerUp == ~close_published /\ (listener_process \/ Listener_on_mqtt_connect)

\* commands reach the processes as long as the broker runs
TyperCommand == broker_running /\ LoadFile
ListenerCommand == broker_running /\ Register

CloseNext ==
    \/ StoreUp
    \/ TyperUp
    \/ ListenerUp
    \/ TyperCommand
    \/ ListenerCommand
    \/ Broker_on_shutdown
    \/ Broker_on_close
    \/ CloseToStore
    \/ CloseToTyper
    \/ CloseToApp

(***************************************************************************)
(* Playback Engine: its copy of the Store's map.                           *)
(***************************************************************************)
CacheInit ==
    /\ state_values = EmptyMap
    /\ to_typer = <<>>
    /\ sync_last = NoMsg

\* dict.update: the entries of `map` are written over those of `cache`,
\* every other entry of `cache` stays
Updated(cache, map) ==
    [name \in DOMAIN cache \cup DOMAIN map |->
        IF name \in DOMAIN map THEN map[name] ELSE cache[name]]

\* the names _sync_from_state copies into the configuration
SyncedNames ==
    {"speed", "pause_on_new_line", "window_title",
     "pause_on_window_not_focused", "refocus_window_on_resume",
     "start_playback_paused", "auto_home_on_newline", "control_on_newline",
     "replace_quad_spaces_with_tab"}

\* Typer._on_mqtt_message for a message on STATE: a "result" that is a dict
\* is merged into self._state_values, anything else is dropped. The Store
\* holds none of the names _sync_from_state reads, so the configuration
\* stays as it is.
Typer_on_state_message ==
    /\ HandlerIdle
    /\ to_typer # <<>>
    /\ sync_last' = Head(to_typer)
    /\ to_typer' = Tail(to_typer)
    /\ state_values' = IF Head(to_typer).result = "<map>"
                          THEN Updated(state_values, Head(to_typer).map)
                          ELSE state_values
    /\ StoreNames \cap SyncedNames = {}
    /\ UNCHANGED <<tokVars, play, paused, creditVars, cfgVars, hwnd, connVars,
                   handlerVars, threadVars, focused, status_pub, monitor,
                   mon_pause, mon_replay, mon_first, mon_credit, mon_stop>>
    /\ mon_event' = NoEvent
    /\ UNCHANGED <<storeVars, listenerVars, appVars, dataVars, raceVars, outVars, uiVars>>

\* the commands the Store gets while the cache is observed: the Typer's
\* periodic {"cmd": "get"} and its play_status updates, and an add, a del
\* and a get of another key
CacheCommands ==
    { c \in StoreCommands :
        \/ c.cmd = "get"
        \/ c.cmd = "del" /\ c.key.t = "str"
        \/ c.cmd = "add" /\ c.key.t = "str" /\ c.value = VStr(<<"5">>)
                         /\ c.type \in {"int", ""} }

CacheCommand ==
    \E cmd_data \in CacheCommands : StateManager_on_state_message(cmd_data)

CacheNext ==
    \/ StateManager_start
    \/ StateManager_on_mqtt_connect
    \/ CacheCommand
    \/ Typer_start
    \/ Typer_on_mqtt_connect
    \/ Typer_on_state_message

(***************************************************************************)
(* A component's own messages, handed back to it by the broker: the Store  *)
(* is subscribed to STATE, the Playback Engine to TYPER and STATE, the     *)
(* Listener to LISTENER, and each publishes on these topics.               *)
(***************************************************************************)
\* what the Store's dispatch reads of one of its own responses
\* ({"result": ...}, {"info": ...}): cmd_data.get("cmd") is None, and so are
\* "key", "value" and "type"
Received(msg) == [cmd |-> "", key |-> KNone, value |-> VNull, type |-> ""]

\* the Store gets the response it published last
StateManager_on_own_message ==
    /\ store_resp > 0
    /\ StateManager_on_state_message(Received(store_msg))

\* the commands the Store gets in the behaviours that follow its own
\* messages: those of CacheCommands and help
EchoCommands == CacheCommands \cup {c \in StoreCommands : c.cmd = "help"}

EchoCommand ==
    \E cmd_data \in EchoCommands : StateManager_on_state_message(cmd_data)

\* what the Engine publishes on STATE: {"cmd": "get"} every 0.1 s while it
\* runs, and {"cmd": "add", "key": "play_status", ...} for each status
OwnRequests ==
    {StateMsg("get", "", "")} \cup
    (IF status_pub = "" THEN {}
     ELSE {StateMsg("add", "play_status", status_pub)})

\* what the STATE branch of Typer._on_mqtt_message reads of a request: it
\* has no "result"
AsStateMessage(request) == Msg("", request.cmd, "", VNull, EmptyMap)

\* the broker hands the Engine a request the Engine itself published on STATE
Typer_own_request_delivered(request) ==
    /\ typer_running
    /\ typer_connected
    /\ request \in OwnRequests
    /\ Len(to_typer) < MaxInbox
    /\ to_typer' = Append(to_typer, AsStateMessage(request))
    /\ UNCHANGED <<state_values, sync_last>>
    /\ UNCHANGED <<storeVars, typerVars, listenerVars, appVars, dataVars,
                   raceVars, outVars, uiVars>>

OwnRequestDelivered ==
    \E request \in {StateMsg("get", "", "")} \cup
                   {StateMsg("add", "play_status", status) : status \in Statuses} :
        Typer_own_request_delivered(request)

\* the names the TYPER branch of Typer._on_mqtt_message dispatches on
TyperCommands ==
    {"load_file", "data", "play", "stop", "pause", "advance_newline",
     "advance_token", "help"}

\* what the Engine publishes on TYPER: {"result": "ok", ...},
\* {"result": [...]}, {"error": ...} and {"info": ...}; cmd is what
\* cmd_data.get("cmd") gives for them
TyperResponses ==
    {[cmd |-> "", body |-> body] : body \in {"result", "error", "info"}}

\* the Engine has answered a command on TYPER
Answered == text_tokens # <<>> \/ status_pub # ""

\* Typer._on_mqtt_message for one of the Engine's own responses on TYPER:
\* no branch of the dispatch takes it, it is logged as an unknown command
Typer_on_own_response(msg) ==
    /\ HandlerIdle
    /\ Answered
    /\ msg.cmd \notin TyperCommands
    /\ mon_event' = Watch(Event("echo", 0, msg.body, FALSE))
    /\ UNCHANGED <<tokVars, play, paused, creditVars, cfgVars, hwnd, connVars,
                   handlerVars, threadVars, focused, status_pub, monitor,
                   mon_pause, mon_replay, mon_first, mon_credit, mon_stop>>
    /\ UNCHANGED <<storeVars, listenerVars, appVars, cacheVars, dataVars,
                   raceVars, outVars, uiVars>>

OwnResponse == \E msg \in TyperResponses : Typer_on_own_response(msg)

\* the broker hands the Listener a hotkey_triggered event the Listener
\* itself published in its last step
Listener_own_event_delivered ==
    /\ listener_connected
    /\ l_fired # <<>>
    /\ Len(to_listener) < MaxInbox
    /\ to_listener' = Append(to_listener,
                             [kind |-> "hotkey_triggered", slot |-> Head(l_fired),
                              hotkey |-> NoHotkey])
    /\ l_fired' = Tail(l_fired)
    /\ UNCHANGED <<hotkeys, recording_slot, recording_source, selected_gamepad,
                   pressed_gamepad, listener_running, listener_listening,
                   listener_connected, held, plugged, l_step, l_dropped>>
    /\ UNCHANGED <<app_hotkeys, app_pc, app_restored, app_reported, to_app,
                   closeVars>>
    /\ UNCHANGED <<storeVars, typerVars, cacheVars, dataVars, raceVars,
                   outVars, uiVars>>

\* the three processes share no state; a behaviour follows one of them
OnlyStore == ~typer_running /\ ~listener_running
OnlyTyper == ~store_running /\ ~listener_running
OnlyListener == ~store_running /\ ~typer_running

EchoNext ==
    \/ OnlyStore /\ StateManager_start
    \/ OnlyStore /\ StateManager_on_mqtt_connect
    \/ OnlyStore /\ EchoCommand
    \/ OnlyStore /\ StateManager_on_own_message
    \/ OnlyTyper /\ Typer_start
    \/ OnlyTyper /\ Typer_on_mqtt_connect
    \/ OnlyTyper /\ LoadFile
    \/ OnlyTyper /\ Typer_handle_pause
    \/ OnlyTyper /\ Typer_handle_pause_publish
    \/ OnlyTyper /\ Typer_handle_stop
    \/ OnlyTyper /\ OwnRequestDelivered
    \/ OnlyTyper /\ Typer_on_state_message
    \/ OnlyTyper /\ OwnResponse
    \/ OnlyListener /\ listener_process
    \/ OnlyListener /\ Listener_on_mqtt_connect
    \/ OnlyListener /\ Register
    \/ OnlyListener /\ KeyboardPress
    \/ OnlyListener /\ Listener_own_event_delivered
    \/ OnlyListener /\ Listener_on_app_message

(***************************************************************************)
(* Tokenizer (data.py).  A text is a sequence of one-character strings; a  *)
(* token is a plain string (a literal span) or one of the five dataclasses.*)
(***************************************************************************)
Literal(chars) == [c |-> "str", key |-> chars, keys |-> <<>>, n |-> 0, d |-> 0]
SingleKey(key) == [c |-> "SingleKey", key |-> key, keys |-> <<>>, n |-> 0, d |-> 0]
MultiKeys(keys) == [c |-> "MultiKeys", key |-> <<>>, keys |-> keys, n |-> 0, d |-> 0]
TimedPause(time) == [c |-> "TimedPause", key |-> <<>>, keys |-> <<>>, n |-> time, d |-> 0]
MouseScrollOf(scroll_count, scroll_direction) ==
    [c |-> "MouseScroll", key |-> <<>>, keys |-> <<>>, n |-> scroll_count,
     d |-> scroll_direction]
RepeatedKey(key, count) ==
    [c |-> "RepeatedKey", key |-> key, keys |-> <<>>, n |-> count, d |-> 0]

\* raise ValueError("Invalid format")
InvalidFormat == [c |-> "ValueError", key |-> <<>>, keys |-> <<>>, n |-> 0, d |-> 0]

Open == <<"<", "<">>
Close == <<">", ">">>

\* the characters `lit` stand in s from position i on; ic is re.IGNORECASE
At(s, i, lit, ic) ==
    /\ i >= 1
    /\ i + Len(lit) - 1 <= Len(s)
    /\ \A k \in 1..Len(lit) :
          IF ic THEN Lower(s[i + k - 1]) = Lower(lit[k])
                ELSE s[i + k - 1] = lit[k]

\* str.replace(old, new): left to right, occurrences do not overlap
RECURSIVE Replace(_, _, _)
Replace(s, old, new) ==
    IF Len(s) < Len(old) THEN s
    ELSE IF At(s, 1, old, FALSE)
    THEN new \o Replace(SubSeq(s, Len(old) + 1, Len(s)), old, new)
    ELSE <<s[1]>> \o Replace(Tail(s), old, new)

\* r'<<.*?>>' at position i: "<<", as few characters as possible, ">>";
\* the position of the closing ">>", 0 if there is no match at i
SpanClose(s, i) ==
    IF At(s, i, Open, FALSE) /\ \E j \in (i + 2)..Len(s) : At(s, j, Close, FALSE)
    THEN CHOOSE j \in (i + 2)..Len(s) :
            /\ At(s, j, Close, FALSE)
            /\ \A k \in (i + 2)..(j - 1) : ~At(s, k, Close, FALSE)
    ELSE 0

\* re.split(r'(<<.*?>>)', text): the spans and the text between them, in
\* order, empty parts included
RECURSIVE ReSplit(_)
ReSplit(s) ==
    IF \E i \in 1..Len(s) : SpanClose(s, i) > 0
    THEN LET i == CHOOSE i \in 1..Len(s) :
                    /\ SpanClose(s, i) > 0
                    /\ \A k \in 1..(i - 1) : SpanClose(s, k) = 0
             j == SpanClose(s, i)
         IN  <<SubSeq(s, 1, i - 1), SubSeq(s, i, j + 1)>>
                 \o ReSplit(SubSeq(s, j + 2, Len(s)))
    ELSE <<s>>

\* [part for part in parts if part]
NonEmpty(parts) == SelectSeq(parts, LAMBDA part : part # <<>>)

TextData_text_to_string_tokens(text, quad_to_tab) ==
    LET folded == IF quad_to_tab
                  THEN Replace(text, <<" ", " ", " ", " ">>, <<"\t">>)
                  ELSE text
        marked == Replace(Replace(folded, <<" ">>, Open \o <<"s", "p", "a", "c", "e">> \o Close),
                          <<"\n">>, Open \o <<"e", "n", "t", "e", "r">> \o Close)
    IN  NonEmpty(ReSplit(marked))

\* the result of re.search: whether the pattern matched and its group 1
\* (empty when the optional group took no part)
NoMatch == [ok |-> FALSE, group |-> <<>>]
Found(group) == [ok |-> TRUE, group |-> group]

\* the position where a run \d+ starting at i ends right before ">>"
DigitsEnd(s, i) ==
    { j \in i..Len(s) :
        /\ \A k \in i..j : s[k] \in Digits
        /\ At(s, j + 1, Close, FALSE) }

\* r"<<NAME>>", r"<<NAME=(\d+)>>" or r"<<NAME(?:=(\d+))?>>" at position i:
\* count is "none", "must" or "may"
Match(s, i, name, count, ic) ==
    LET a == i + 2 + Len(name) IN
    IF ~At(s, i, Open \o name, ic) THEN NoMatch
    ELSE IF count # "none" /\ At(s, a, <<"=">>, FALSE) /\ DigitsEnd(s, a + 1) # {}
    THEN Found(SubSeq(s, a + 1, CHOOSE j \in DigitsEnd(s, a + 1) : TRUE))
    ELSE IF count # "must" /\ At(s, a, Close, FALSE)
    THEN Found(<<>>)
    ELSE NoMatch

\* re.search: the leftmost match
Search(s, name, count, ic) ==
    IF \E i \in 1..Len(s) : Match(s, i, name, count, ic).ok
    THEN Match(s, CHOOSE i \in 1..Len(s) :
                      /\ Match(s, i, name, count, ic).ok
                      /\ \A k \in 1..(i - 1) : ~Match(s, k, name, count, ic).ok,
               name, count, ic)
    ELSE NoMatch

\* r"<<([^<>]+)>>" at position i
KeyMatch(s, i) ==
    IF /\ At(s, i, Open, FALSE)
       /\ \E j \in (i + 3)..Len(s) :
             /\ At(s, j, Close, FALSE)
             /\ \A k \in (i + 2)..(j - 1) : s[k] \notin {"<", ">"}
    THEN Found(SubSeq(s, i + 2,
                      (CHOOSE j \in (i + 3)..Len(s) :
                          /\ At(s, j, Close, FALSE)
                          /\ \A k \in (i + 2)..(j - 1) : s[k] \notin {"<", ">"}) - 1))
    ELSE NoMatch

KeySearch(s) ==
    IF \E i \in 1..Len(s) : KeyMatch(s, i).ok
    THEN KeyMatch(s, CHOOSE i \in 1..Len(s) :
                         /\ KeyMatch(s, i).ok
                         /\ \A k \in 1..(i - 1) : ~KeyMatch(s, k).ok)
    ELSE NoMatch

\* str.split('+')
RECURSIVE SplitPlus(_)
SplitPlus(s) ==
    IF \E i \in 1..Len(s) : s[i] = "+"
    THEN LET i == CHOOSE i \in 1..Len(s) :
                    s[i] = "+" /\ \A k \in 1..(i - 1) : s[k] # "+"
         IN  <<SubSeq(s, 1, i - 1)>> \o SplitPlus(SubSeq(s, i + 1, Len(s)))
    ELSE <<s>>

\* key_mapping
key_mapping ==
    { <<<<"c", "t", "r", "l">>, <<"c", "t", "r", "l">>>>,
      <<<<"c", "o", "n", "t", "r", "o", "l">>, <<"c", "t", "r", "l">>>>,
      <<<<"a", "l", "t">>, <<"a", "l", "t">>>>,
      <<<<"s", "h", "i", "f", "t">>, <<"s", "h", "i", "f", "t">>>>,
      <<<<"w", "i", "n">>, <<"c", "m", "d">>>>,
      <<<<"c", "m", "d">>, <<"c", "m", "d">>>>,
      <<<<"s", "u", "p", "e", "r">>, <<"c", "m", "d">>>>,
      <<<<"e", "s", "c">>, <<"e", "s", "c">>>>,
      <<<<"e", "s", "c", "a", "p", "e">>, <<"e", "s", "c">>>>,
      <<<<"e", "n", "t", "e", "r">>, <<"e", "n", "t", "e", "r">>>>,
      <<<<"r", "e", "t", "u", "r", "n">>, <<"e", "n", "t", "e", "r">>>>,
      <<<<"t", "a", "b">>, <<"t", "a", "b">>>>,
      <<<<"s", "p", "a", "c", "e">>, <<"s", "p", "a", "c", "e">>>>,
      <<<<"b", "a", "c", "k", "s", "p", "a", "c", "e">>, <<"b", "a", "c", "k", "s", "p", "a", "c", "e">>>>,
      <<<<"d", "e", "l", "e", "t", "e">>, <<"d", "e", "l", "e", "t", "e">>>>,
      <<<<"d", "e", "l">>, <<"d", "e", "l", "e", "t", "e">>>>,
      <<<<"h", "o", "m", "e">>, <<"h", "o", "m", "e">>>>,
      <<<<"e", "n", "d">>, <<"e", "n", "d">>>>,
      <<<<"p", "a", "g", "e", "u", "p">>, <<"p", "a", "g", "e", "_", "u", "p">>>>,
      <<<<"p", "a", "g", "e", "d", "o", "w", "n">>, <<"p", "a", "g", "e", "_", "d", "o", "w", "n">>>>,
      <<<<"u", "p">>, <<"u", "p">>>>,
      <<<<"d", "o", "w", "n">>, <<"d", "o", "w", "n">>>>,
      <<<<"l", "e", "f", "t">>, <<"l", "e", "f", "t">>>>,
      <<<<"r", "i", "g", "h", "t">>, <<"r", "i", "g", "h", "t">>>>,
      <<<<"f", "1">>, <<"f", "1">>>>,
      <<<<"f", "2">>, <<"f", "2">>>>,
      <<<<"f", "3">>, <<"f", "3">>>>,
      <<<<"f", "4">>, <<"f", "4">>>>,
      <<<<"f", "5">>, <<"f", "5">>>>,
      <<<<"f", "6">>, <<"f", "6">>>>,
      <<<<"f", "7">>, <<"f", "7">>>>,
      <<<<"f", "8">>, <<"f", "8">>>>,
      <<<<"f", "9">>, <<"f", "9">>>>,
      <<<<"f", "1", "0">>, <<"f", "1", "0">>>>,
      <<<<"f", "1", "1">>, <<"f", "1", "1">>>>,
      <<<<"f", "1", "2">>, <<"f", "1", "2">>>> }

\* key_mapping.get(key_lower, key_lower)
MappedKey(key) ==
    LET key_lower == LowerStr(key) IN
    IF \E e \in key_mapping : e[1] = key_lower
    THEN (CHOOSE e \in key_mapping : e[1] = key_lower)[2]
    ELSE key_lower

\* the last pattern of parse_string_token_to_command_token: a key or a chord
KeyToken(string_token) ==
    LET key_match == KeySearch(string_token) IN
    IF key_match.ok
    THEN LET keys == SplitPlus(key_match.group)
             normalized_keys == [i \in 1..Len(keys) |-> MappedKey(keys[i])]
         IN  IF Len(normalized_keys) = 1
             THEN SingleKey(normalized_keys[1])
             ELSE MultiKeys(normalized_keys)
    ELSE InvalidFormat

\* a tokenizer that tries the generic pattern before every other one
GenericPatternFirst(string_token) == KeyToken(string_token)

\* the directives <<NAME>> / <<NAME=N>> that give a RepeatedKey, in the
\* order the code tries them
CountedKeys ==
    << [name |-> <<"B", "A", "C", "K", "S", "P", "A", "C", "E">>, key |-> <<"b", "a", "c", "k", "s", "p", "a", "c", "e">>],
       [name |-> <<"D", "E", "L", "E", "T", "E">>, key |-> <<"d", "e", "l", "e", "t", "e">>],
       [name |-> <<"U", "P", "_", "A", "R", "R", "O", "W">>, key |-> <<"u", "p">>],
       [name |-> <<"D", "O", "W", "N", "_", "A", "R", "R", "O", "W">>, key |-> <<"d", "o", "w", "n">>],
       [name |-> <<"L", "E", "F", "T", "_", "A", "R", "R", "O", "W">>, key |-> <<"l", "e", "f", "t">>],
       [name |-> <<"R", "I", "G", "H", "T", "_", "A", "R", "R", "O", "W">>, key |-> <<"r", "i", "g", "h", "t">>],
       [name |-> <<"H", "O", "M", "E">>, key |-> <<"h", "o", "m", "e">>],
       [name |-> <<"E", "N", "D">>, key |-> <<"e", "n", "d">>],
       [name |-> <<"T", "A", "B">>, key |-> <<"t", "a", "b">>] >>

\* count = int(group(1)) if group(1) else 1
CountOf(found) == IF found.group # <<>> THEN DigitsVal(found.group) ELSE 1

\* the first of the counted directives from position k on that matches
RECURSIVE RepeatedToken(_, _)
RepeatedToken(string_token, k) ==
    IF k > Len(CountedKeys) THEN InvalidFormat
    ELSE LET found == Search(string_token, CountedKeys[k].name, "may", TRUE) IN
         IF found.ok
         THEN RepeatedKey(CountedKeys[k].key, CountOf(found))
         ELSE RepeatedToken(string_token, k + 1)

TextData_parse_string_token_to_command_token(string_token) ==
    LET pause_match == Search(string_token, <<"p", "a", "u", "s", "e">>, "must", TRUE)
        scroll_up_match ==
            Search(string_token, <<"s", "c", "r", "o", "l", "l", "u", "p">>, "must", FALSE)
        scroll_down_match ==
            Search(string_token, <<"s", "c", "r", "o", "l", "l", "d", "o", "w", "n">>,
                   "must", FALSE)
    IN
    IF pause_match.ok THEN TimedPause(DigitsVal(pause_match.group))
    ELSE IF Search(string_token, <<"p", "a", "u", "s", "e">>, "none", TRUE).ok
    THEN SingleKey(<<"a", "t", "p", "a", "u", "s", "e">>)
    ELSE IF scroll_up_match.ok
    THEN MouseScrollOf(DigitsVal(scroll_up_match.group), 1)
    ELSE IF scroll_down_match.ok
    THEN MouseScrollOf(DigitsVal(scroll_down_match.group), -1)
    ELSE IF RepeatedToken(string_token, 1) # InvalidFormat
    THEN RepeatedToken(string_token, 1)
    ELSE IF \/ Search(string_token, <<"E", "S", "C">>, "none", TRUE).ok
            \/ Search(string_token, <<"E", "S", "C", "A", "P", "E">>, "none", TRUE).ok
    THEN SingleKey(<<"e", "s", "c">>)
    ELSE IF Search(string_token, <<"E", "N", "T", "E", "R">>, "none", TRUE).ok
    THEN SingleKey(<<"e", "n", "t", "e", "r">>)
    ELSE KeyToken(string_token)

\* parse_text_to_tokens: a string token that raises ValueError stays a str
TextData_parse_text_to_tokens(text, quad_to_tab) ==
    LET string_tokens == TextData_text_to_string_tokens(text, quad_to_tab)
    IN  [i \in 1..Len(string_tokens) |->
            LET command_token ==
                    TextData_parse_string_token_to_command_token(string_tokens[i])
            IN  IF command_token = InvalidFormat
                THEN Literal(string_tokens[i])
                ELSE command_token]

(***************************************************************************)
(* Tokenizer: the texts a TextData is constructed with.                    *)
(***************************************************************************)
\* every text of up to MaxText characters over TextChars
MaxText == 4
TextChars == {"a", " ", "\n", "<", ">"}
ShortTexts == UNION { [1..len -> TextChars] : len \in 0..MaxText }

\* directives, with and without a count, alone and next to other text
DirectiveNames ==
    { <<"p", "a", "u", "s", "e">>,
      <<"P", "A", "U", "S", "E">>,
      <<"s", "c", "r", "o", "l", "l", "u", "p">>,
      <<"s", "c", "r", "o", "l", "l", "d", "o", "w", "n">>,
      <<"b", "a", "c", "k", "s", "p", "a", "c", "e">>,
      <<"d", "e", "l", "e", "t", "e">>,
      <<"U", "P", "_", "A", "R", "R", "O", "W">>,
      <<"D", "O", "W", "N", "_", "A", "R", "R", "O", "W">>,
      <<"L", "E", "F", "T", "_", "A", "R", "R", "O", "W">>,
      <<"R", "I", "G", "H", "T", "_", "A", "R", "R", "O", "W">>,
      <<"h", "o", "m", "e">>,
      <<"e", "n", "d">>,
      <<"t", "a", "b">>,
      <<"e", "s", "c">>,
      <<"e", "n", "t", "e", "r">>,
      <<"c", "t", "r", "l", "+", "c">>,
      <<"u", "p">> }
Suffixes == { <<>>, <<"=", "3">>, <<"=", "0">>, <<"=", "1", "2">> }
Affixes == { <<>>, <<"a">>, <<" ">> }
Span(name, suffix) == Open \o name \o suffix \o Close
Directives ==
    { pre \o Span(name, suffix) \o post :
        pre \in Affixes, name \in DirectiveNames, suffix \in Suffixes,
        post \in Affixes }

HelloWorld == <<"h", "e", "l", "l", "o", " ", "w", "o", "r", "l", "d">>

Texts == ShortTexts \cup Directives \cup {HelloWorld}

DataInit(m) ==
    /\ original_text_to_type \in (IF m = "tokens" THEN Texts ELSE {<<>>})
    /\ replace_quad_spaces_with_tab \in (IF m = "tokens" THEN BOOLEAN ELSE {FALSE})
    /\ data_text_tokens = <<>>
    /\ data_parsed = FALSE

\* TextData.__init__
TextData_init ==
    /\ monitor = "tokens"
    /\ ~data_parsed
    /\ data_text_tokens' =
          TextData_parse_text_to_tokens(original_text_to_type,
                                        replace_quad_spaces_with_tab)
    /\ data_parsed' = TRUE
    /\ UNCHANGED <<original_text_to_type, replace_quad_spaces_with_tab>>
    /\ UNCHANGED <<storeVars, typerVars, listenerVars, appVars, cacheVars,
                   raceVars, outVars, uiVars>>

TokensNext == TextData_init

RaceInit ==
    /\ h_reg = 0
    /\ w_reg = [t \in Threads |-> 0]
    /\ mon_granted = 0
    /\ mon_spent = 0

\* nothing is injected before the first play
OutInit ==
    /\ mon_out = <<>>
    /\ mon_clean = FALSE

\* APP_STATE as app.py defines it; no message has come yet
ControlsInit ==
    /\ play_status = "stopped"
    /\ source_file_path = ""
    /\ to_ui = <<>>
    /\ mon_ui = ""

\* the state after construction of the processes, under one observation
Init(m) ==
    /\ StoreInit /\ TyperInit /\ ListenerInit /\ AppInit /\ CacheInit
    /\ DataInit(m)
    /\ RaceInit
    /\ OutInit
    /\ ControlsInit
    /\ monitor = m

InitStore == Init("none")
InitPause == Init("C6")
InitReplay == Init("C7")
InitCredit == Init("C8")
InitStop == Init("C9")
InitStatus == Init("C10")

SpecStore == InitStore /\ [][StoreNext]_vars

SpecPause == InitPause /\ [][EngineNext]_vars
SpecReplay == InitReplay /\ [][EngineNext]_vars
SpecCredit == InitCredit /\ [][EngineNext]_vars
SpecStop == InitStop /\ [][EngineNext]_vars
SpecStatus == InitStatus /\ [][EngineNext]_vars

InitPlay == Init("C11")
InitInject == Init("C13")

InitExhaust == Init("C12")

\* the playback threads are scheduled: each is a running thread of the
\* process, and none of its steps waits for anything but the flags
PlaybackFair ==
    /\ WF_vars(PlayWithDelay)
    /\ WF_vars(TypeTextTokens)
    /\ WF_vars(TypeToken)
    /\ WF_vars(TypeChar)
    /\ WF_vars(TokenTyped)
    /\ WF_vars(PlaybackFinished)

SpecExhaust == InitExhaust /\ [][EngineNext]_vars /\ PlaybackFair

SpecPlay == InitPlay /\ [][EngineNext]_vars
SpecInject == InitInject /\ [][EngineNext]_vars

InitSession == Init("C37")
SpecSession == InitSession /\ [][EngineNext]_vars

InitControls == Init("C35")
SpecControls == InitControls /\ [][ControlsNext]_vars

InitEcho == Init("C40")
SpecEcho == InitEcho /\ [][EchoNext]_vars

InitListener == Init("none")
SpecListener == InitListener /\ [][ListenerNext]_vars

InitHotplug == Init("C22")
SpecHotplug == InitHotplug /\ [][ListenerNext]_vars

InitCache == Init("C26")
SpecCache == InitCache /\ [][CacheNext]_vars

InitTokens == Init("tokens")
SpecTokens == InitTokens /\ [][TokensNext]_vars

InitRace == Init("C30")
SpecRace == InitRace /\ [][RaceNext]_vars

InitRestore == Init("C23")

\* both processes run, the broker delivers what it accepted and the UI's
\* timers fire
RestoreFair ==
    /\ WF_vars(listener_process)
    /\ WF_vars(Listener_on_mqtt_connect)
    /\ WF_vars(App_load_hotkeys)
    /\ WF_vars(App_send_hotkeys_to_listener)
    /\ WF_vars(Listener_on_app_message)
    /\ WF_vars(App_check_mqtt_messages)

SpecRestore == InitRestore /\ [][RestoreNext]_vars /\ RestoreFair

InitClose == Init("C24")

\* the broker delivers the CLOSE to every subscriber of APP
CloseFair ==
    /\ WF_vars(Broker_on_close)
    /\ WF_vars(CloseToStore)
    /\ WF_vars(CloseToTyper)
    /\ WF_vars(CloseToApp)

SpecClose == InitClose /\ [][CloseNext]_vars /\ CloseFair

\* a command the Store has to refuse: an unknown command name, an add or
\* del without key, or an add whose value cannot be coerced
Refused(c) ==
    \/ c.cmd \notin {"", "get", "add", "del", "help"}
    \/ c.cmd \in {"add", "del"} /\ c.key.t = "null"
    \/ CoercionFails(c)

\* C25: every command that fails validation (missing field, unknown command
\* name, coercion failure) is answered with one structured error response on
\* the topic it came in on, and the state of the component is unchanged.
C25_ValidationErrorsAnswered ==
    Refused(store_last) =>
        /\ store_resp = 1
        /\ store_msg.result = "error"
        /\ ~store_changed

\* C26: after the Playback Engine has processed a full-map message from the
\* Store, its cached copy equals the map of that message exactly, so a key
\* deleted in the Store is absent from the cache.
C26_CacheReplacedWholesale ==
    sync_last.result = "<map>" => state_values = sync_last.map

(***************************************************************************)
(* Tokenizer: claims.                                                      *)
(***************************************************************************)
\* the tokens of the text around a directive
AffixTokens(affix) ==
    IF affix = <<>> THEN <<>>
    ELSE IF affix = <<" ">> THEN <<SingleKey(<<"s", "p", "a", "c", "e">>)>>
    ELSE <<Literal(affix)>>

\* the text is `span` between two affixes and its tokens are `token`
\* between the tokens of the affixes
Around(span, token) ==
    \A pre \in Affixes, post \in Affixes :
        original_text_to_type = pre \o span \o post
            => data_text_tokens = AffixTokens(pre) \o <<token>> \o AffixTokens(post)

Counts == Suffixes \ {<<>>}

\* C27: the span "<<pause=N>>" tokenizes to TimedPause(N), not to a key or a
\* chord named "pause=N", and a bare "<<pause>>" tokenizes to the atpause
\* marker key: the pause patterns are tried before the generic pattern.
C27_PauseBeforeGenericKey ==
    data_parsed =>
        /\ \A suffix \in Counts :
              Around(Span(<<"p", "a", "u", "s", "e">>, suffix), TimedPause(DigitsVal(Tail(suffix))))
        /\ Around(Span(<<"p", "a", "u", "s", "e">>, <<>>), SingleKey(<<"a", "t", "p", "a", "u", "s", "e">>))

C27_Witness ==
    /\ data_parsed
    /\ original_text_to_type = <<"a">> \o Span(<<"p", "a", "u", "s", "e">>, <<"=", "1", "2">>)
    /\ data_text_tokens = <<Literal(<<"a">>), TimedPause(12)>>

\* the directive names the claim lists for a repeated key
RepeatedNames ==
    { [name |-> <<"b", "a", "c", "k", "s", "p", "a", "c", "e">>, key |-> <<"b", "a", "c", "k", "s", "p", "a", "c", "e">>],
      [name |-> <<"d", "e", "l", "e", "t", "e">>, key |-> <<"d", "e", "l", "e", "t", "e">>],
      [name |-> <<"U", "P", "_", "A", "R", "R", "O", "W">>, key |-> <<"u", "p">>],
      [name |-> <<"D", "O", "W", "N", "_", "A", "R", "R", "O", "W">>, key |-> <<"d", "o", "w", "n">>],
      [name |-> <<"L", "E", "F", "T", "_", "A", "R", "R", "O", "W">>, key |-> <<"l", "e", "f", "t">>],
      [name |-> <<"R", "I", "G", "H", "T", "_", "A", "R", "R", "O", "W">>, key |-> <<"r", "i", "g", "h", "t">>],
      [name |-> <<"h", "o", "m", "e">>, key |-> <<"h", "o", "m", "e">>],
      [name |-> <<"e", "n", "d">>, key |-> <<"e", "n", "d">>],
      [name |-> <<"t", "a", "b">>, key |-> <<"t", "a", "b">>] }

ScrollNames ==
    { [name |-> <<"s", "c", "r", "o", "l", "l", "u", "p">>, direction |-> 1],
      [name |-> <<"s", "c", "r", "o", "l", "l", "d", "o", "w", "n">>, direction |-> -1] }

\* the count a directive stands for: N of "=N", 1 without a suffix
Count(suffix) == IF suffix = <<>> THEN 1 ELSE DigitsVal(Tail(suffix))

\* C28: a counted directive without "=N" has count 1 and with "=N" has
\* count N: backspace, delete, the arrows, home, end and tab give a
\* RepeatedKey, scrollup and scrolldown a MouseScroll up (+1) or down (-1).
C28_CountDefaultsToOne ==
    data_parsed =>
        /\ \A r \in RepeatedNames, suffix \in Suffixes :
              Around(Span(r.name, suffix), RepeatedKey(r.key, Count(suffix)))
        /\ \A r \in ScrollNames, suffix \in Suffixes :
              Around(Span(r.name, suffix), MouseScrollOf(Count(suffix), r.direction))

\* a text without directives: no "<<" has a ">>" after it
NoDirective(text) == \A i \in 1..Len(text) : SpanClose(text, i) = 0

\* the position where the run of characters other than space and newline
\* that starts at the head of s ends
RunEnd(s) ==
    CHOOSE j \in 1..Len(s) :
        /\ \A k \in 1..j : s[k] \notin {" ", "\n"}
        /\ j = Len(s) \/ s[j + 1] \in {" ", "\n"}

\* one literal per maximal run, a space key per space, an enter key per
\* newline, in the order of the text
RECURSIVE Runs(_)
Runs(s) ==
    IF s = <<>> THEN <<>>
    ELSE IF s[1] = " " THEN <<SingleKey(<<"s", "p", "a", "c", "e">>)>> \o Runs(Tail(s))
    ELSE IF s[1] = "\n" THEN <<SingleKey(<<"e", "n", "t", "e", "r">>)>> \o Runs(Tail(s))
    ELSE <<Literal(SubSeq(s, 1, RunEnd(s)))>> \o Runs(SubSeq(s, RunEnd(s) + 1, Len(s)))

\* C29: with four-space folding off, a text without directives tokenizes to
\* one literal token per maximal run of characters other than space and
\* newline, a space key for every space and an enter key for every
\* newline, in source order and without empty tokens.
C29_PlainTextTokens ==
    data_parsed /\ ~replace_quad_spaces_with_tab /\ NoDirective(original_text_to_type)
        => data_text_tokens = Runs(original_text_to_type)

(***************************************************************************)
(* Playback Engine: claims.                                                *)
(***************************************************************************)
\* C6: pause is a toggle, not a latch: after one pause command issued in the
\* playing state the engine is paused, and after a second pause command in
\* a row it is playing again.
C6_PauseIsToggle ==
    /\ mon_pause = 1 => play /\ paused
    /\ mon_pause = 2 => play /\ ~paused

\* a second pause command in a row was handled and a playback thread has
\* gone on consuming tokens
C6_Witness ==
    /\ mon_pause = 2
    /\ \E t \in Threads : w_pc[t] \in {"while", "chars"} /\ w_idx[t] >= 2

\* C7: after stop handled in the paused state and then play, the first token
\* consumed is token 1 of the loaded source, and until then the remaining-
\* token view is the full original sequence.
C7_StopPlayRestarts ==
    mon_replay = "replayed" =>
        /\ mon_first \in {0, 1}
        /\ mon_first = 0 => text_tokens_preview = original_text_tokens

\* C8: with one token credit granted while paused (and no newline credit),
\* exactly one token is consumed: never two, the credit goes back to zero
\* only by that consumption, and the engine is paused afterwards.
C8_OneCreditOneToken ==
    /\ mon_credit <= 1
    /\ mon_credit = 0 => advance_token = 1 /\ paused
    /\ (mon_credit = 1 /\ \A t \in Threads : w_pc[t] # "typed")
          => advance_token = 0 /\ paused

\* C9: once stop was handled while a playback thread was in the middle of a
\* literal span, at most one further character of that span is injected.
C9_StopMidSpan == \A t \in Threads : mon_stop[t] <= 1

\* thread t has nothing to do until the next command or focus change
Blocked(t) ==
    \/ ~Alive(t)
    \/ w_pc[t] = "while" /\ play /\ paused /\ ~CreditOpen(play, paused)
    \/ w_pc[t] = "chars" /\ paused /\ WindowFocused /\ ~CreditOpen(play, paused)

Quiescent == h_pc = "idle" /\ \A t \in Threads : Blocked(t)

\* the play_status the State Store last received from the engine
Published == IF status_pub = "none" THEN "stopped" ELSE status_pub

\* C10: whenever the handlers and the playback threads are quiescent, the
\* most recently published play_status is the engine's actual state.
C10_StatusMatchesState == Quiescent => Published = EngineState

\* C11: a play command handled with no (or an empty) loaded sequence yields
\* an error response, starts no playback thread and leaves the engine as it
\* was, stopped.
C11_PlayNeedsData ==
    [][(mon_event'.e = "play" /\ text_tokens = <<>>) =>
          /\ mon_event'.r = "error"
          /\ ~mon_event'.s
          /\ w_pc' = w_pc
          /\ play' = play /\ paused' = paused
          /\ ~play => ~play']_vars

\* a play command was refused for missing data, before any load and after
\* an empty file was loaded
C11_Witness ==
    /\ mon_event.e = "play"
    /\ mon_event.r = "error"
    /\ ~play
    /\ \A t \in Threads : ~Alive(t)

\* C12: under fair scheduling of the playback thread, an engine that is
\* playing either gets paused or stopped by something, or consumes its last
\* token, becomes stopped and publishes stopped.
C12_ExhaustionStops ==
    (play /\ ~paused) ~> (paused \/ (~play /\ (typer_running => status_pub = "stopped")))

\* no step credit is outstanding
NoCredit == advance_to_newline = 0 /\ advance_token = 0

\* C13: while the engine is paused and both credit counters are zero, no
\* key and no character of a literal span is injected.
C13_PausedInjectsNothing ==
    [][mon_event'.e = "inject" => ~(paused /\ NoCredit)]_vars

\* C15: between a pause command that resumes playback with
\* refocus_window_on_resume and the end of its settle delay, no key and no
\* character is injected.
C15_SettleBeforeResume ==
    [][(h_pc = "pause_sleep" /\ play) => mon_event'.e # "inject"]_vars

\* C14: a focus check of a playback thread that finds the target window
\* unfocused with no credit outstanding injects nothing, leaves the engine
\* paused with paused published, and leaves the thread at the same token.
C14_FocusLossAborts ==
    [][(mon_event'.e = "unfocused" /\ NoCredit /\ typer_running) =>
          /\ paused'
          /\ status_pub' = "paused"
          /\ w_idx' = w_idx /\ w_ch' = w_ch /\ w_done' = w_done
          /\ w_pc' = w_pc
          /\ text_tokens_preview' = text_tokens_preview]_vars

\* a focus check just failed while the engine was playing
C14_Witness ==
    /\ mon_event.e = "unfocused"
    /\ play /\ paused /\ NoCredit
    /\ hwnd /\ pause_on_window_not_focused /\ ~focused
    /\ status_pub = "paused"

\* C16: consuming an atpause marker leaves the engine paused and takes one
\* advance-to-newline credit if one is outstanding.
C16_AtPauseTakesCredit ==
    [][mon_event'.e = "atpause" =>
          /\ paused'
          /\ advance_to_newline > 0 => advance_to_newline' = advance_to_newline - 1]_vars

(***************************************************************************)
(* Listener: claims.                                                       *)
(***************************************************************************)
\* two bindings are bindings of the same physical input
SameInput(h1, h2) ==
    /\ h1.source = h2.source
    /\ h1.value = h2.value
    /\ h1.gamepad_name = h2.gamepad_name

\* C17: no two slots are ever bound to the same physical input: in every
\* reachable state of the binding table at most one slot holds a given
\* (source, value, device).
C17_OneSlotPerInput ==
    \A s1, s2 \in Slots :
        (s1 # s2 /\ hotkeys[s1] # NoHotkey /\ hotkeys[s2] # NoHotkey)
            => ~SameInput(hotkeys[s1], hotkeys[s2])

\* the last step handled a press that the source reported and, for a
\* gamepad, that came from the selected device
Pressed(step) == step.kind = "press"

FromSelected(step) ==
    step.source = "gamepad" => step.device = selected_gamepad

\* C18: in recording mode for (slot, source) the next press from that source
\* becomes the binding of that slot, publishes no hotkey_triggered event
\* even if it matches a bound slot, and ends recording mode; a press
\* outside recording mode changes no binding.
C18_RecordingCapturesNext ==
    [][/\ (Pressed(l_step') /\ FromSelected(l_step')
              /\ recording_slot # NoSlot
              /\ recording_source = l_step'.source)
          => /\ hotkeys' = [hotkeys EXCEPT ![recording_slot] =
                               HotkeyEvent(recording_slot, l_step'.source,
                                           l_step'.value, l_step'.device)]
             /\ l_fired' = <<>>
             /\ recording_slot' = NoSlot
             /\ recording_source' = NoSource
       /\ (Pressed(l_step')
              /\ (recording_slot = NoSlot
                      \/ recording_source # l_step'.source))
          => /\ hotkeys' = hotkeys
             /\ recording_slot' = recording_slot
             /\ recording_source' = recording_source]_vars

\* a press was captured for a slot although another slot was bound to the
\* same input, and nothing was published
C18_Witness ==
    /\ Pressed(l_step)
    /\ l_step.slot # NoSlot
    /\ recording_slot = NoSlot
    /\ hotkeys[l_step.slot].source = l_step.source
    /\ hotkeys[l_step.slot].value = l_step.value
    /\ \E other \in Slots \ {l_step.slot} :
           SameInput(hotkeys[other], hotkeys[l_step.slot])
    /\ l_fired = <<>>
    /\ listener_connected

\* a register command that register_hotkey accepts
Accepted(step) ==
    /\ step.kind = "register"
    /\ step.slot \in Slots
    /\ step.source \in Sources
    /\ step.source = "gamepad" => selected_gamepad # NoPad

\* C19: recording mode holds one target and does not queue: an accepted
\* register received while another is pending replaces the pending target
\* and changes no binding, and the press captured next binds the slot of
\* the latest register only, the slot of the replaced one keeping what it
\* held.
C19_RegisterReplacesPending ==
    [][/\ (Accepted(l_step') /\ recording_slot # NoSlot)
          => /\ recording_slot' = l_step'.slot
             /\ recording_source' = l_step'.source
             /\ hotkeys' = hotkeys
       /\ (Pressed(l_step') /\ hotkeys' # hotkeys)
          => /\ recording_slot # NoSlot
             /\ \A slot \in Slots \ {recording_slot} :
                    hotkeys'[slot] = hotkeys[slot]
             /\ hotkeys'[recording_slot] # NoHotkey]_vars

\* a press was captured right after a register had replaced the pending
\* target: the slot of the latest register is bound, the other one is empty
C19_Witness ==
    /\ Pressed(l_step)
    /\ l_dropped # NoSlot
    /\ l_step.slot # l_dropped
    /\ hotkeys[l_step.slot] # NoHotkey
    /\ hotkeys[l_dropped] = NoHotkey
    /\ recording_slot = NoSlot

\* the slots a press of (source, value, device) has to fire
Bound(source, value, device) ==
    {slot \in Slots :
        /\ hotkeys[slot] # NoHotkey
        /\ hotkeys[slot].source = source
        /\ hotkeys[slot].value = value
        /\ source = "gamepad" => hotkeys[slot].gamepad_name = device}

\* a sequence of slots in ascending order
Ascending(slots) ==
    \A i, j \in 1..Len(slots) : i < j => slots[i] < slots[j]

C21_UnregisterClears ==
    [][(l_step'.kind = "unregister" /\ l_step'.slot \in Slots)
       => /\ hotkeys'[l_step'.slot] = NoHotkey
          /\ \A other \in Slots \ {l_step'.slot} :
                 hotkeys'[other] = hotkeys[other]
          /\ hotkeys[l_step'.slot] = NoHotkey => hotkeys' = hotkeys]_vars

\* a bound slot was cleared while another slot stayed bound
C21_Witness ==
    /\ l_step.kind = "unregister"
    /\ l_step.mode = "bound"
    /\ hotkeys[l_step.slot] = NoHotkey
    /\ \E other \in Slots : hotkeys[other] # NoHotkey

\* C22: a register for a gamepad slot while no gamepad is plugged in is
\* refused with an error, does not start a recording and leaves every
\* binding as it was, also when a gamepad was plugged in when the Listener
\* started and has been pulled out since.
C22_NoDeviceRefused ==
    [][(l_step'.kind = "register" /\ l_step'.source = "gamepad"
           /\ l_step'.slot \in Slots /\ plugged = {})
       => /\ l_step'.mode = "raised"
          /\ recording_slot' = recording_slot
          /\ recording_source' = recording_source
          /\ hotkeys' = hotkeys]_vars

(***************************************************************************)
(* UI and Listener: claims.                                                *)
(***************************************************************************)
\* C23: every binding restored from the hotkey file is, in the end, either
\* held by the Listener's binding table or cleared in the UI with the reason
\* shown; it does not stay shown as set while the Listener does not hold it.
C23_RestoredRevalidated ==
    \A slot \in Slots :
        (app_pc = "sent" /\ app_restored[slot] # NoHotkey)
            ~> \/ hotkeys[slot] # NoHotkey
                    /\ SameInput(hotkeys[slot], app_restored[slot])
               \/ app_hotkeys[slot] = NoHotkey /\ slot \in app_reported

\* C24: after a {"command": "CLOSE"} message is published on APP while the
\* processes are connected, every process (State Store, Playback Engine,
\* Listener, broker, UI) stops in the end: none of them keeps running.
C24_CloseStopsAll ==
    (close_published /\ store_connected /\ typer_connected
         /\ listener_connected)
        ~> (/\ ~store_running
            /\ ~typer_running
            /\ ~listener_running
            /\ ~broker_running
            /\ ~app_running)

\* C30: the credit counter is updated under mutual exclusion, so no update
\* is lost: whatever the interleaving of the advance_token handler with the
\* playback thread, the credits granted are the credits spent plus the
\* credits outstanding.
C30_NoCreditLost ==
    Racy => mon_granted = mon_spent + advance_token

(***************************************************************************)
(* Playback Engine: tokens, newlines and credits across sessions.          *)
(***************************************************************************)
\* C31: a playback thread that reaches a RepeatedKey token while the engine
\* plays leaves type_token with the token consumed: the key was pressed and
\* released `count` times and the token is marked completed, so playback
\* goes on with the next token.
C31_RepeatedKeyConsumed ==
    [][\A t \in Threads :
          (/\ w_pc[t] = "type"
           /\ Tok(t).k = "rep"
           /\ play
           /\ w_pc'[t] # "type")
          => w_pc'[t] = "typed" /\ w_done'[t]]_vars

\* C33: with "pause on new line" disabled and the engine playing, not
\* paused, consuming an enter token leaves the engine playing, whatever the
\* credit counters hold.
C33_EnterPausesOnlyWhenEnabled ==
    [][\A t \in Threads :
          (/\ w_pc[t] = "type"
           /\ Tok(t).k = "enter"
           /\ play /\ ~paused
           /\ ~pause_on_new_line
           /\ w_pc'[t] = "typed" /\ w_done'[t])
          => ~paused']_vars

\* C39: credits do not carry over between sessions: both counters are zero
\* when a session ends (stop, natural end) and when the next one begins.
C39_NoCreditAcrossSessions ==
    [][play' # play => advance_to_newline' = 0 /\ advance_token' = 0]_vars

(***************************************************************************)
(* Playback Engine: what one session injects, and its preview.             *)
(***************************************************************************)
\* what consuming token number i injects: a literal span its characters one
\* by one, a RepeatedKey its key `count` times, any other token one key
Items(i, token) ==
    IF token.k \in {"lit", "rep"}
    THEN [c \in 1..token.n |-> <<i, c>>]
    ELSE << <<i, 0>> >>

\* what consuming the tokens from number i on injects
RECURSIVE ExpansionFrom(_, _)
ExpansionFrom(tokens, i) ==
    IF i > Len(tokens) THEN <<>>
    ELSE Items(i, tokens[i]) \o ExpansionFrom(tokens, i + 1)

Expansion(tokens) == ExpansionFrom(tokens, 1)

IsPrefix(s, t) == Len(s) <= Len(t) /\ s = SubSeq(t, 1, Len(s))

\* no playback thread is left
NoWorker == \A t \in Threads : ~Alive(t)

\* C32: while a session that no stop and no load_file interrupted is at its
\* k+1-th token, having consumed k of the n it plays, the preview holds the
\* last n-k entries of the loaded sequence.
C32_PreviewIsRemainder ==
    \A t \in Threads :
        (mon_clean /\ play /\ w_pc[t] \in {"while", "type", "chars"})
        => text_tokens_preview = SubSeq(w_toks[t], w_idx[t], Len(w_toks[t]))

\* C37: in a session that no stop and no load_file interrupts, what was
\* injected is at every moment a prefix of the loaded sequence, token by
\* token and character by character, and once its worker is gone it is the
\* whole sequence: nothing skipped, nothing repeated, nothing left out.
C37_InjectedIsLoaded ==
    mon_clean =>
        /\ IsPrefix(mon_out, Expansion(text_tokens))
        /\ NoWorker => mon_out = Expansion(text_tokens)

\* C38: a pause command that comes while the engine is stopped leaves it
\* stopped, with both flags as they were, and publishes neither paused nor
\* playing.
C38_PauseNeedsSession ==
    [][(mon_event'.e = "pause" /\ ~play)
       => /\ ~play'
          /\ paused' = paused
          /\ status_pub' \in {status_pub, "stopped"}]_vars

\* C36: at most one playback thread is alive at any time, whatever play,
\* stop and pause commands came and whenever they came.
C36_OneWorker ==
    \A t, u \in Threads : (Alive(t) /\ Alive(u)) => t = u

(***************************************************************************)
(* Startup: the connection to the broker.                                  *)
(***************************************************************************)
\* listener_process keeps the process in `while True: time.sleep(1)` after
\* start() returned, whether start() connected or not
ListenerAlive == listener_running

\* C34: a process whose connection to the broker failed at startup ends: a
\* Listener that is alive has connected and started its input listeners.
C34_FailedConnectIsFatal ==
    ListenerAlive => listener_listening

(***************************************************************************)
(* UI: the play status it shows.                                           *)
(***************************************************************************)
\* C35: the UI never changes its play_status by itself: play_status changes
\* only in a step that handles a message the UI received.
C35_StatusOnlyFromMessages ==
    [][play_status' # play_status => mon_ui' = "message"]_vars

(***************************************************************************)
(* The bus: a component's own messages.                                    *)
(***************************************************************************)
\* what a message that is no command may not touch in the Engine
engineState == <<state_values, tokVars, play, paused, creditVars, cfgVars,
                 hwnd, status_pub>>

=============================================================================
